---- MODULE Spec2Model ----
(***************************************************************************)
(* A model of the pilot HTTP -> gRPC gateway: the radix route tree, the    *)
(* route registry with its service pools, the discovery watcher over the   *)
(* coordination store, the event loop and the request pipeline.            *)
(*                                                                         *)
(* Strings are sequences of characters.  The code tells characters apart   *)
(* only by equality with '/', ':', '*', '?', '#', ' ' and '.', so a run of *)
(* other characters is written as one token ("users", "v1", "123").        *)
(***************************************************************************)
EXTENDS Integers, Sequences, FiniteSets, TLC

\* ------------------------------------------------------------------------
\* String helpers (package strings / path of the Go standard library)
\* ------------------------------------------------------------------------

Last(s) == s[Len(s)]

Front(s) == SubSeq(s, 1, Len(s) - 1)

RECURSIVE TrimLeft(_)
TrimLeft(s) ==
  IF s # <<>> /\ Head(s) = " " THEN TrimLeft(Tail(s)) ELSE s

RECURSIVE TrimRight(_)
TrimRight(s) ==
  IF s # <<>> /\ Last(s) = " " THEN TrimRight(Front(s)) ELSE s

\* strings.Trim(p, " ") and strings.TrimSpace on the characters of the model
TrimSpace(s) == TrimRight(TrimLeft(s))

\* p[:idx] for idx = strings.IndexByte(p, c), p itself when c does not occur
RECURSIVE CutAt(_, _)
CutAt(s, c) ==
  IF s = <<>> THEN <<>>
  ELSE IF Head(s) = c THEN <<>>
  ELSE <<Head(s)>> \o CutAt(Tail(s), c)

\* for strings.Contains(p, "//") { p = strings.ReplaceAll(p, "//", "/") }
RECURSIVE CollapseSlashes(_)
CollapseSlashes(s) ==
  IF Len(s) < 2 THEN s
  ELSE IF s[1] = "/" /\ s[2] = "/" THEN CollapseSlashes(Tail(s))
  ELSE <<Head(s)>> \o CollapseSlashes(Tail(s))

\* strings.Split(s, c)
RECURSIVE SplitOn(_, _)
SplitOn(s, c) ==
  IF s = <<>> THEN << <<>> >>
  ELSE LET rest == SplitOn(Tail(s), c) IN
       IF Head(s) = c THEN << <<>> >> \o rest
       ELSE << <<Head(s)>> \o Head(rest) >> \o Tail(rest)

SplitSlash(s) == SplitOn(s, "/")

\* strings.Join(segs, "/")
RECURSIVE JoinSlash(_)
JoinSlash(segs) ==
  IF segs = <<>> THEN <<>>
  ELSE IF Len(segs) = 1 THEN segs[1]
  ELSE segs[1] \o <<"/">> \o JoinSlash(Tail(segs))

\* strings.ToUpper, character by character
UpperChar(c) ==
  CASE c = "get" -> "GET"
    [] c = "post" -> "POST"
    [] OTHER -> c

ToUpper(s) == [i \in 1..Len(s) |-> UpperChar(s[i])]

\* path.Clean of a rooted path: the elements between slashes, "." dropped,
\* ".." removing the element before it (or nothing at the root)
RECURSIVE CleanElems(_, _)
CleanElems(elems, acc) ==
  IF elems = <<>> THEN acc
  ELSE LET e == Head(elems) IN
       IF e = <<>> \/ e = <<".">> THEN CleanElems(Tail(elems), acc)
       ELSE IF e = <<".", ".">>
            THEN CleanElems(Tail(elems), IF acc = <<>> THEN acc ELSE Front(acc))
       ELSE CleanElems(Tail(elems), Append(acc, e))

PathClean(p) == <<"/">> \o JoinSlash(CleanElems(SplitSlash(p), <<>>))

\* ------------------------------------------------------------------------
\* Route keys
\* ------------------------------------------------------------------------

normalizePath(method, p) ==
  LET m == ToUpper(TrimSpace(method))
      c1 == TrimSpace(p)
      c2 == IF c1 # <<>> /\ Head(c1) = "/" THEN Tail(c1) ELSE c1
      clean == PathClean(<<"/">> \o c2)
  IN <<"/", "[">> \o m \o <<"]">> \o clean

splitPath(path) ==
  IF path = <<>> THEN << <<>> >>
  ELSE LET p1 == TrimSpace(path)
           p2 == CutAt(p1, "?")
           p3 == CutAt(p2, "#")
           p4 == CollapseSlashes(p3)
       IN IF p4 = <<"/">> THEN << <<>> >>
          ELSE LET p5 == IF Len(p4) > 0 /\ p4[1] # "/" THEN <<"/">> \o p4 ELSE p4
                   segs == SplitSlash(p5)
               IN IF Len(segs) > 0 /\ segs[1] = <<>> THEN Tail(segs) ELSE segs

\* ------------------------------------------------------------------------
\* The radix route tree.  A node is named by its position, the segments of
\* the nodes from the root down to it; a tree maps the positions of its
\* nodes to their value slot.  A position whose last segment starts with
\* ':' is its parent's paramChild, with '*' its wildChild, any other is an
\* entry of its parent's children map.
\* ------------------------------------------------------------------------

\* the nil *Route of a node without a value
NoRule == [method |-> <<>>, path |-> <<>>, body |-> <<>>, name |-> ""]

NoValue == [ServiceName |-> "", HttpRule |-> NoRule]

EmptyNode == [value |-> NoValue, fullPath |-> <<>>]

NewRouteTree == (<<>> :> EmptyNode)

Kids(t, p) ==
  {q \in DOMAIN t : Len(q) = Len(p) + 1 /\ SubSeq(q, 1, Len(p)) = p}

StaticKids(t, p) == {q \in Kids(t, p) : Last(q)[1] \notin {":", "*"}}

ParamKids(t, p) == {q \in Kids(t, p) : Last(q)[1] = ":"}

WildKids(t, p) == {q \in Kids(t, p) : Last(q)[1] = "*"}

\* cur.children[seg] != nil
HasStatic(t, p, seg) ==
  seg # <<>> /\ seg[1] \notin {":", "*"} /\ (p \o <<seg>>) \in DOMAIN t

paramChild(t, p) == CHOOSE q \in ParamKids(t, p) : TRUE

wildChild(t, p) == CHOOSE q \in WildKids(t, p) : TRUE

BadPath(path) == path = <<>> \/ path[1] # "/"

\* The loop of Insert from segment i on.  An error return keeps the nodes
\* the loop has created so far.
RECURSIVE InsertWalk(_, _, _, _)
InsertWalk(t, cur, segs, i) ==
  IF i > Len(segs) THEN [tree |-> t, cur |-> cur, err |-> "ok"]
  ELSE LET seg == segs[i] IN
    IF seg = <<>> THEN InsertWalk(t, cur, segs, i + 1)
    ELSE IF seg[1] = ":" THEN
      IF Tail(seg) = <<>> THEN [tree |-> t, cur |-> cur, err |-> "BadSegment"]
      ELSE IF WildKids(t, cur) # {}
        THEN [tree |-> t, cur |-> cur, err |-> "ConflictWildcard"]
      ELSE LET t2 == IF ParamKids(t, cur) = {}
                     THEN t @@ ((cur \o <<seg>>) :> EmptyNode) ELSE t
               pc == paramChild(t2, cur)
           IN IF Tail(Last(pc)) # Tail(seg)
              THEN [tree |-> t2, cur |-> cur, err |-> "ConflictParam"]
              ELSE InsertWalk(t2, pc, segs, i + 1)
    ELSE IF seg[1] = "*" THEN
      IF Tail(seg) = <<>> THEN [tree |-> t, cur |-> cur, err |-> "BadSegment"]
      ELSE IF i # Len(segs)
        THEN [tree |-> t, cur |-> cur, err |-> "WildcardNotLast"]
      ELSE IF StaticKids(t, cur) # {} \/ ParamKids(t, cur) # {}
        THEN [tree |-> t, cur |-> cur, err |-> "ConflictWildcard"]
      ELSE LET t2 == IF WildKids(t, cur) = {}
                     THEN t @@ ((cur \o <<seg>>) :> EmptyNode) ELSE t
           IN InsertWalk(t2, wildChild(t2, cur), segs, i + 1)
    ELSE LET q == cur \o <<seg>>
             t2 == IF q \in DOMAIN t THEN t ELSE t @@ (q :> EmptyNode)
         IN InsertWalk(t2, q, segs, i + 1)

\* RouteTree.Insert: the tree after the call and the error ("ok" for nil)
Insert(t, path, val) ==
  IF BadPath(path) THEN [tree |-> t, err |-> "BadPath"]
  ELSE LET w == InsertWalk(t, <<>>, splitPath(path), 1) IN
       IF w.err # "ok" THEN [tree |-> w.tree, err |-> w.err]
       ELSE [tree |-> [w.tree EXCEPT ![w.cur] = [value |-> val, fullPath |-> path]],
             err |-> "ok"]

\* MatchWalk with the parameter child tried before the static child
RECURSIVE MatchWalkParamFirst(_, _, _, _, _, _)
MatchWalkParamFirst(t, cur, segs, i, stack, params) ==
  IF i > Len(segs) THEN [found |-> TRUE, cur |-> cur, stack |-> stack, params |-> params]
  ELSE LET seg == segs[i] IN
    IF seg = <<>> THEN MatchWalkParamFirst(t, cur, segs, i + 1, stack, params)
    ELSE IF ParamKids(t, cur) # {}
      THEN LET pc == paramChild(t, cur) IN
           MatchWalkParamFirst(t, pc, segs, i + 1, Append(stack, pc),
                               (Tail(Last(pc)) :> seg) @@ params)
    ELSE IF HasStatic(t, cur, seg)
      THEN MatchWalkParamFirst(t, cur \o <<seg>>, segs, i + 1,
                               Append(stack, cur \o <<seg>>), params)
    ELSE IF WildKids(t, cur) # {}
      THEN LET wc == wildChild(t, cur) IN
           [found |-> TRUE, cur |-> wc, stack |-> Append(stack, wc),
            params |-> (Tail(Last(wc)) :> JoinSlash(SubSeq(segs, i, Len(segs)))) @@ params]
    ELSE [found |-> FALSE, cur |-> cur, stack |-> stack, params |-> params]

\* The matching loop shared by Lookup, Update and Delete from segment i on:
\* the node reached, the positions passed and the captured parameters.
RECURSIVE MatchWalk(_, _, _, _, _, _)
MatchWalk(t, cur, segs, i, stack, params) ==
  IF i > Len(segs) THEN [found |-> TRUE, cur |-> cur, stack |-> stack, params |-> params]
  ELSE LET seg == segs[i] IN
    IF seg = <<>> THEN MatchWalk(t, cur, segs, i + 1, stack, params)
    ELSE IF HasStatic(t, cur, seg)
      THEN MatchWalk(t, cur \o <<seg>>, segs, i + 1, Append(stack, cur \o <<seg>>), params)
    ELSE IF ParamKids(t, cur) # {}
      THEN LET pc == paramChild(t, cur) IN
           MatchWalk(t, pc, segs, i + 1, Append(stack, pc),
                     (Tail(Last(pc)) :> seg) @@ params)
    ELSE IF WildKids(t, cur) # {}
      THEN LET wc == wildChild(t, cur) IN
           [found |-> TRUE, cur |-> wc, stack |-> Append(stack, wc),
            params |-> (Tail(Last(wc)) :> JoinSlash(SubSeq(segs, i, Len(segs)))) @@ params]
    ELSE [found |-> FALSE, cur |-> cur, stack |-> stack, params |-> params]

NoParams == [x \in {} |-> <<>>]

NotFound == [found |-> FALSE, value |-> NoValue, params |-> NoParams]

\* RouteTree.Lookup
Lookup(t, path) ==
  IF BadPath(path) THEN NotFound
  ELSE LET w == MatchWalk(t, <<>>, splitPath(path), 1, << <<>> >>, NoParams) IN
       IF ~w.found \/ t[w.cur].value = NoValue THEN NotFound
       ELSE [found |-> TRUE, value |-> t[w.cur].value, params |-> w.params]

\* Compact with no node removed
CompactNone(t, stack, i) == t

\* The compaction loop of Delete: from the leaf up, a node with no value and
\* no child is unlinked from its parent.
RECURSIVE Compact(_, _, _)
Compact(t, stack, i) ==
  IF i <= 1 THEN t
  ELSE LET n == stack[i] IN
       IF t[n].value = NoValue /\ Kids(t, n) = {}
       THEN Compact([q \in DOMAIN t \ {n} |-> t[q]], stack, i - 1)
       ELSE Compact(t, stack, i - 1)

\* RouteTree.Delete: the tree after the call and the result
Delete(t, path) ==
  IF BadPath(path) THEN [tree |-> t, ok |-> FALSE]
  ELSE LET w == MatchWalk(t, <<>>, splitPath(path), 1, << <<>> >>, NoParams) IN
       IF ~w.found \/ t[w.cur].value = NoValue THEN [tree |-> t, ok |-> FALSE]
       ELSE [tree |-> Compact([t EXCEPT ![w.cur] = EmptyNode], w.stack, Len(w.stack)),
             ok |-> TRUE]

\* RouteTree.Update with an updater that returns (newVal, apply): called
\* tells whether the updater was run on the value of the node reached
Update(t, path, newVal, apply) ==
  IF BadPath(path) THEN [tree |-> t, ok |-> FALSE, called |-> FALSE]
  ELSE LET w == MatchWalk(t, <<>>, splitPath(path), 1, << <<>> >>, NoParams) IN
       IF ~w.found \/ t[w.cur].value = NoValue
       THEN [tree |-> t, ok |-> FALSE, called |-> FALSE]
       ELSE IF ~apply THEN [tree |-> t, ok |-> FALSE, called |-> TRUE]
       ELSE [tree |-> [t EXCEPT ![w.cur].value = newVal], ok |-> TRUE, called |-> TRUE]

\* ------------------------------------------------------------------------
\* The values of the model
\* ------------------------------------------------------------------------

Services == {"user", "ping"}

InstIds == {"i1", "i2"}

\* The "host:port" values an instance key may hold
AddrA == <<"10.0.0.1", ":", "50051">>

AddrB == <<"10.0.0.2", ":", "50051">>

Addrs == {AddrA, AddrB}

\* The port strings fmt.Sscanf reads a number from
PortStrings == {"50051"}

\* The HTTP rules ExtractHTTPRules yields from the descriptors of the model
RuleGetUser ==
  [method |-> <<"GET">>, path |-> <<"/", "v1", "/", "users", "/", "{", "id", "}">>,
   body |-> <<>>, name |-> "GetUser"]

RuleCreateUser ==
  [method |-> <<"POST">>, path |-> <<"/", "v1", "/", "users">>,
   body |-> <<"*">>, name |-> "CreateUser"]

RulePing ==
  [method |-> <<"GET">>, path |-> <<"/", "v1", "/", "ping">>,
   body |-> <<>>, name |-> "Ping"]

RuleFilesA ==
  [method |-> <<"GET">>, path |-> <<"/", "f", "/", "*", "a">>,
   body |-> <<>>, name |-> "FilesA"]

RuleFilesB ==
  [method |-> <<"GET">>, path |-> <<"/", "f", "/", "*", "b">>,
   body |-> <<>>, name |-> "FilesB"]

\* The descriptor sets published as metadata: the rules of their methods in
\* declaration order
DescRules(d) ==
  CASE d = "U1" -> <<RuleGetUser, RulePing, RuleFilesA>>
    [] d = "U2" -> <<RuleGetUser, RulePing, RuleFilesA, RuleCreateUser>>
    [] d = "P1" -> <<RulePing, RuleFilesB>>
    [] OTHER -> <<>>

\* the number of files of a descriptor set
FileCount(d) == IF d \in {"U1", "U2", "P1"} THEN 1 ELSE 0

\* The metadata values a service's key may hold: the JSON document with its
\* service_name and its descriptor set
MetaDoc(s, d) == [json |-> TRUE, service_name |-> s, descriptor |-> d]

MetaVals(s) ==
  IF s = "user" THEN {MetaDoc(s, "U1"), MetaDoc(s, "U2")} ELSE {MetaDoc(s, "P1")}

FirstMeta(s) == IF s = "user" THEN MetaDoc(s, "U1") ELSE MetaDoc(s, "P1")

RuleKey(rule) == normalizePath(rule.method, rule.path)

\* ------------------------------------------------------------------------
\* State
\* ------------------------------------------------------------------------

VARIABLES
  \* the coordination store and its two watch streams
  metaStore, instStore, watchM, watchI, opLog,
  \* the watcher
  wpc, watchingM, watchingI, metadataMap, instancesMap, initialLoading,
  toEmit, eventChan, emitted,
  \* the route registry
  tree, servicePools, pools, invs, routeIndex, pathIndex,
  \* the event loop (processEvents) and the call it is in
  ev,
  \* the request thread (ServeHTTP) and its last response
  rq, resp, served,
  \* the call of HTTPGateway.Stop: how far it has come
  stop,
  \* the route tree on its own: the number of calls made, the last call, and
  \* the tree as it was before that call with the call made before it
  treeOps, treeCall, treeWas,
  \* a pool on its own: the calls of getNextInvoker made on pools[1]
  poolCalls,
  \* the route tree under concurrent callers: its lock (RouteTree.freeze),
  \* the thread inside Insert or Delete, the thread inside Lookup
  freeze, wr, lk,
  \* the calls made to the network (NewGRPCInvoker, GRPCInvoker.Close) by a
  \* caller that held a lock of the registry or of a pool at the time
  io,
  \* the payload composed on its own: what each call of BuildRequestJSON on
  \* the request returned
  composed,
  \* the watcher stopped while its goroutines run: whether Stop has closed
  \* the event channel, and where each watch goroutine is
  wt

storeVars == <<metaStore, instStore, watchM, watchI, opLog>>

watcherVars ==
  <<wpc, watchingM, watchingI, metadataMap, instancesMap, initialLoading,
    toEmit, eventChan, emitted>>

registryVars == <<tree, servicePools, pools, invs, routeIndex, pathIndex>>

aloneVars == <<treeOps, treeCall, treeWas, poolCalls, freeze, wr, lk, io, composed, wt>>

reqVars == <<rq, resp, served>>

vars == <<storeVars, watcherVars, registryVars, ev, reqVars, aloneVars, stop>>

\* ------------------------------------------------------------------------
\* Bounds
\* ------------------------------------------------------------------------

\* inputs of one behaviour: store mutations, store read failures and requests
MaxOps == 2

\* the largest round-robin counter a pool of SpecPool starts with
MaxCounter == 2

\* calls on the route tree in one behaviour of SpecTree
MaxTreeOps == 3

\* capacity of the watcher's event channel
EventChanCap == 100

\* ------------------------------------------------------------------------
\* The discovery watcher
\* ------------------------------------------------------------------------

\* Watcher.parseServiceMetadata: an error for a value that is not the JSON of
\* a ServiceMetadata
parseServiceMetadata(v) ==
  IF ~v.json THEN [err |-> TRUE]
  ELSE [err |-> FALSE,
        metadata |-> [ServiceName |-> v.service_name, Descriptor |-> v.descriptor]]

\* Watcher.parseServiceInstance: nil unless the value is "host:port"
parseServiceInstance(v) ==
  LET parts == SplitOn(v, ":") IN
  IF Len(parts) # 2 THEN [nil |-> TRUE]
  ELSE IF parts[2] = <<>> \/ parts[2][1] \notin PortStrings THEN [nil |-> TRUE]
  ELSE [nil |-> FALSE,
        instance |-> [Address |-> parts[1], Port |-> parts[2][1], Addr |-> v]]

\* the keys of a Get with a prefix come back in key order
IdOrder == <<"i1", "i2", "i3">>

\* the names of the services of a snapshot that holds one service more than
\* the event channel has room for
ManyServices == [i \in 1..(EventChanCap + 1) |-> "s" \o ToString(i)]

ServiceOrder == <<"ping", "user">>

InstAddrs(list) == {list[i].Addr : i \in 1..Len(list)}

\* the insert-or-replace by address of handleInstanceEvent (Put)
PutInstance(list, inst) ==
  IF \E i \in 1..Len(list) : list[i].Addr = inst.Addr
  THEN LET i == CHOOSE j \in 1..Len(list) :
                  /\ list[j].Addr = inst.Addr
                  /\ \A k \in 1..(j - 1) : list[k].Addr # inst.Addr
       IN [list EXCEPT ![i] = inst]
  ELSE Append(list, inst)

ServiceEvent(type, meta, insts) ==
  [type |-> type, name |-> meta.ServiceName, desc |-> meta.Descriptor, insts |-> insts]

\* handleMetadataEvent without the test of initialLoading
handleMetadataEventUnsuppressed(mm, im, loading, e) ==
  IF e.type = "put" THEN
    LET parsed == parseServiceMetadata(e.val) IN
    IF parsed.err THEN [meta |-> mm, out |-> <<>>]
    ELSE LET metadata == parsed.metadata
             insts == IF e.svc \in DOMAIN im THEN im[e.svc] ELSE <<>> IN
         [meta |-> (e.svc :> metadata) @@ mm,
          out |-> <<ServiceEvent("Update", metadata, insts)>>]
  ELSE
    IF e.svc \notin DOMAIN mm THEN [meta |-> mm, out |-> <<>>]
    ELSE LET insts == IF e.svc \in DOMAIN im THEN im[e.svc] ELSE <<>> IN
         [meta |-> [x \in DOMAIN mm \ {e.svc} |-> mm[x]],
          out |-> IF Len(insts) = 0
                  THEN <<ServiceEvent("Delete", mm[e.svc], insts)>>
                  ELSE <<>>]

\* handleMetadataEvent with the Delete event sent whether or not instances
\* remain
handleMetadataEventDeleteAlways(mm, im, loading, e) ==
  IF e.type = "put" THEN
    LET parsed == parseServiceMetadata(e.val) IN
    IF parsed.err THEN [meta |-> mm, out |-> <<>>]
    ELSE LET metadata == parsed.metadata
             insts == IF e.svc \in DOMAIN im THEN im[e.svc] ELSE <<>> IN
         [meta |-> (e.svc :> metadata) @@ mm,
          out |-> IF loading THEN <<>>
                  ELSE <<ServiceEvent("Update", metadata, insts)>>]
  ELSE
    IF e.svc \notin DOMAIN mm THEN [meta |-> mm, out |-> <<>>]
    ELSE LET insts == IF e.svc \in DOMAIN im THEN im[e.svc] ELSE <<>> IN
         [meta |-> [x \in DOMAIN mm \ {e.svc} |-> mm[x]],
          out |-> <<ServiceEvent("Delete", mm[e.svc], insts)>>]

\* Watcher.handleMetadataEvent under w.mu: the metadata mirror after the
\* event and the events it sends
handleMetadataEvent(mm, im, loading, e) ==
  IF e.type = "put" THEN
    LET parsed == parseServiceMetadata(e.val) IN
    IF parsed.err THEN [meta |-> mm, out |-> <<>>]
    ELSE LET metadata == parsed.metadata
             insts == IF e.svc \in DOMAIN im THEN im[e.svc] ELSE <<>> IN
         [meta |-> (e.svc :> metadata) @@ mm,
          out |-> IF loading THEN <<>>
                  ELSE <<ServiceEvent("Update", metadata, insts)>>]
  ELSE
    IF e.svc \notin DOMAIN mm THEN [meta |-> mm, out |-> <<>>]
    ELSE LET insts == IF e.svc \in DOMAIN im THEN im[e.svc] ELSE <<>> IN
         [meta |-> [x \in DOMAIN mm \ {e.svc} |-> mm[x]],
          out |-> IF Len(insts) = 0
                  THEN <<ServiceEvent("Delete", mm[e.svc], insts)>>
                  ELSE <<>>]

\* the values a Get under the discovery prefix of service s returns, in key
\* order, parsed as the Delete branch of handleInstanceEvent parses them
RECURSIVE ReadInstances(_, _, _)
ReadInstances(store, s, i) ==
  IF i > Len(IdOrder) THEN <<>>
  ELSE IF <<s, IdOrder[i]>> \notin DOMAIN store THEN ReadInstances(store, s, i + 1)
  ELSE LET v == store[<<s, IdOrder[i]>>]
           rest == ReadInstances(store, s, i + 1)
       IN IF parseServiceInstance(v).nil THEN rest
          ELSE <<parseServiceInstance(v).instance>> \o rest

\* handleInstanceEvent with an Update sent where the re-read set is empty
handleInstanceEventNeverDelete(mm, im, loading, e, store, getOk) ==
  IF e.type = "put" THEN
    LET parsed == parseServiceInstance(e.val) IN
    IF parsed.nil THEN [inst |-> im, out |-> <<>>]
    ELSE LET instance == parsed.instance
             old == IF e.svc \in DOMAIN im THEN im[e.svc] ELSE <<>>
             instances == PutInstance(old, instance)
         IN [inst |-> (e.svc :> instances) @@ im,
             out |-> IF e.svc \notin DOMAIN mm \/ loading THEN <<>>
                     ELSE <<ServiceEvent("Update", mm[e.svc], instances)>>]
  ELSE
    IF e.svc \notin DOMAIN im THEN [inst |-> im, out |-> <<>>]
    ELSE IF ~getOk THEN [inst |-> im, out |-> <<>>]
    ELSE LET newInstances == ReadInstances(store, e.svc, 1) IN
         [inst |-> (e.svc :> newInstances) @@ im,
          out |-> IF e.svc \notin DOMAIN mm THEN <<>>
                  ELSE IF loading THEN <<>>
                  ELSE <<ServiceEvent("Update", mm[e.svc], newInstances)>>]

\* Watcher.handleInstanceEvent under w.mu: the instance mirror after the
\* event and the events it sends.  store is the discovery prefix as the Get
\* of the Delete branch finds it, getOk whether that Get succeeds.
handleInstanceEvent(mm, im, loading, e, store, getOk) ==
  IF e.type = "put" THEN
    LET parsed == parseServiceInstance(e.val) IN
    IF parsed.nil THEN [inst |-> im, out |-> <<>>]
    ELSE LET instance == parsed.instance
             old == IF e.svc \in DOMAIN im THEN im[e.svc] ELSE <<>>
             instances == PutInstance(old, instance)
         IN [inst |-> (e.svc :> instances) @@ im,
             out |-> IF e.svc \notin DOMAIN mm \/ loading THEN <<>>
                     ELSE <<ServiceEvent("Update", mm[e.svc], instances)>>]
  ELSE
    IF e.svc \notin DOMAIN im THEN [inst |-> im, out |-> <<>>]
    ELSE IF ~getOk THEN [inst |-> im, out |-> <<>>]
    ELSE LET newInstances == ReadInstances(store, e.svc, 1) IN
         [inst |-> (e.svc :> newInstances) @@ im,
          out |-> IF e.svc \notin DOMAIN mm THEN <<>>
                  ELSE IF Len(newInstances) = 0
                    THEN <<ServiceEvent("Delete", mm[e.svc], newInstances)>>
                  ELSE IF loading THEN <<>>
                  ELSE <<ServiceEvent("Update", mm[e.svc], newInstances)>>]

\* the loop over the metadata snapshot of loadExistingServicesAndInstances:
\* the mirror after it and the events the handler sent
RECURSIVE LoadMeta(_, _, _, _)
LoadMeta(acc, im, store, i) ==
  IF i > Len(ServiceOrder) THEN acc
  ELSE LET s == ServiceOrder[i] IN
       IF s \notin DOMAIN store THEN LoadMeta(acc, im, store, i + 1)
       ELSE LET r == handleMetadataEvent(acc.meta, im, TRUE,
                       [type |-> "put", svc |-> s, val |-> store[s]])
            IN LoadMeta([meta |-> r.meta, out |-> acc.out \o r.out], im, store, i + 1)

\* the loop over the instance snapshot of loadExistingServicesAndInstances:
\* the mirror after it and the events the handler sent
RECURSIVE LoadInst(_, _, _, _, _)
LoadInst(mm, acc, store, i, j) ==
  IF i > Len(ServiceOrder) THEN acc
  ELSE IF j > Len(IdOrder) THEN LoadInst(mm, acc, store, i + 1, 1)
  ELSE LET s == ServiceOrder[i] IN
       IF <<s, IdOrder[j]>> \notin DOMAIN store THEN LoadInst(mm, acc, store, i, j + 1)
       ELSE LET r == handleInstanceEvent(mm, acc.inst, TRUE,
                       [type |-> "put", svc |-> s, id |-> IdOrder[j],
                        val |-> store[<<s, IdOrder[j]>>]],
                       store, TRUE)
            IN LoadInst(mm, [inst |-> r.inst, out |-> acc.out \o r.out], store, i, j + 1)

\* ------------------------------------------------------------------------
\* Initial state: the gateway constructed (NewHTTPGateway) over a store that
\* already holds some services
\* ------------------------------------------------------------------------

\* RouteTree.freeze with no holder
Unlocked == [writer |-> FALSE, readers |-> 0]

\* no thread is inside Insert or Delete
WrIdle ==
  [pc |-> "idle", op |-> "", path |-> <<>>, val |-> NoValue, before |-> <<>>,
   cur |-> <<>>, stack |-> <<>>, ok |-> FALSE]

\* no thread is inside Lookup; result is what the last Lookup returned
LkIdle == [pc |-> "idle", path |-> <<>>, result |-> NotFound]

\* a watch goroutine in the select of its loop, nothing to send
WtThread == [pc |-> "select", out |-> <<>>]

\* the event channel open, both watch goroutines in their loops
WtInit == [closed |-> FALSE, m |-> WtThread, i |-> WtThread]

NoEvent == [type |-> "", name |-> "", desc |-> "", insts |-> <<>>]

EvIdle ==
  [pc |-> "idle", e |-> NoEvent, pool |-> 0, need |-> FALSE, toCreate |-> <<>>,
   created |-> <<>>, first |-> "", toClose |-> {}, rules |-> <<>>]

NoRequest == [method |-> <<>>, path |-> <<>>, query |-> <<>>, body |-> <<>>]

RqIdle ==
  [pc |-> "idle", req |-> NoRequest, route |-> NoValue, params |-> <<>>,
   pool |-> 0, inv |-> 0]

\* what InvokeMethod came back with: nothing yet, a response, an error that
\* carries a gRPC status, or any other error
NoAnswer == [kind |-> "none", code |-> 0, msg |-> ""]

OkAnswer == [kind |-> "ok", code |-> 0, msg |-> ""]

StatusAnswer(code, msg) == [kind |-> "status", code |-> code, msg |-> msg]

ErrorAnswer(msg) == [kind |-> "error", code |-> 0, msg |-> msg]

NoResponse ==
  [status |-> 0, code |-> 0, msg |-> "", inv |-> 0, payload |-> <<>>,
   upstream |-> NoAnswer]

\* the services the store holds before the gateway starts, each with its
\* metadata and one instance
InitialStores == SUBSET Services

InitMeta(present) == [s \in present |-> FirstMeta(s)]

InitInst(present) == [k \in {<<s, "i1">> : s \in present} |-> AddrA]

InitGateway ==
  /\ watchM = <<>> /\ watchI = <<>> /\ opLog = <<>>
  /\ wpc = "new" /\ watchingM = FALSE /\ watchingI = FALSE
  /\ metadataMap = <<>> /\ instancesMap = <<>> /\ initialLoading = FALSE
  /\ toEmit = {} /\ eventChan = <<>> /\ emitted = <<>>
  /\ tree = NewRouteTree /\ servicePools = <<>> /\ pools = <<>> /\ invs = <<>>
  /\ routeIndex = <<>> /\ pathIndex = {}
  /\ ev = EvIdle /\ rq = RqIdle /\ resp = NoResponse /\ served = 0
  /\ treeOps = 0 /\ treeCall = <<>> /\ treeWas = [tree |-> NewRouteTree, call |-> <<>>] /\ poolCalls = <<>>
  /\ freeze = Unlocked /\ wr = WrIdle /\ lk = LkIdle
  /\ io = {} /\ composed = <<>> /\ wt = WtInit
  /\ stop = "no"

Init ==
  /\ \E present \in InitialStores :
       /\ metaStore = InitMeta(present)
       /\ instStore = InitInst(present)
  /\ InitGateway

\* ------------------------------------------------------------------------
\* The coordination store: clients put and delete keys; a change reaches a
\* watch stream only once that watch has been opened
\* ------------------------------------------------------------------------

\* the record of one store operation: whether the watch saw it, and whether
\* the service had its routes installed (and no registry call was running)
\* when it was made
LogEntry(op, s, id, val, seen) ==
  [op |-> op, svc |-> s, id |-> id, val |-> val, seen |-> seen,
   routed |-> (ev.pc = "idle" /\ s \in DOMAIN routeIndex /\ routeIndex[s] # {})]

\* the inputs a behaviour has taken so far
Inputs == Len(opLog) + served

\* the instance keys clients write under a service, and the addresses they hold
InstIdsOf(s) == IF s = "user" THEN InstIds ELSE {"i1"}

InstVals(s) == IF s = "user" THEN Addrs ELSE {AddrA}

AddrName(a) == IF a = AddrA THEN "a" ELSE IF a = AddrB THEN "b" ELSE "?"

Without(f, k) == [x \in DOMAIN f \ {k} |-> f[x]]

StorePutMeta(s, v) ==
  /\ Inputs < MaxOps
  /\ metaStore' = (s :> v) @@ metaStore
  /\ watchM' = IF watchingM
               THEN Append(watchM, [type |-> "put", svc |-> s, val |-> v])
               ELSE watchM
  /\ opLog' = Append(opLog, LogEntry("putMeta", s, "", v.descriptor, watchingM))
  /\ UNCHANGED <<instStore, watchI, watcherVars, registryVars, ev, reqVars, aloneVars, stop>>

StoreDeleteMeta(s) ==
  /\ Inputs < MaxOps
  /\ s \in DOMAIN metaStore
  /\ metaStore' = Without(metaStore, s)
  /\ watchM' = IF watchingM
               THEN Append(watchM, [type |-> "delete", svc |-> s, val |-> metaStore[s]])
               ELSE watchM
  /\ opLog' = Append(opLog, LogEntry("delMeta", s, "", "", watchingM))
  /\ UNCHANGED <<instStore, watchI, watcherVars, registryVars, ev, reqVars, aloneVars, stop>>

StorePutInstance(s, id, a) ==
  /\ Inputs < MaxOps
  /\ instStore' = (<<s, id>> :> a) @@ instStore
  /\ watchI' = IF watchingI
               THEN Append(watchI, [type |-> "put", svc |-> s, id |-> id, val |-> a])
               ELSE watchI
  /\ opLog' = Append(opLog, LogEntry("putInst", s, id, AddrName(a), watchingI))
  /\ UNCHANGED <<metaStore, watchM, watcherVars, registryVars, ev, reqVars, aloneVars, stop>>

StoreDeleteInstance(s, id) ==
  /\ Inputs < MaxOps
  /\ <<s, id>> \in DOMAIN instStore
  /\ instStore' = Without(instStore, <<s, id>>)
  /\ watchI' = IF watchingI
               THEN Append(watchI, [type |-> "delete", svc |-> s, id |-> id,
                                    val |-> instStore[<<s, id>>]])
               ELSE watchI
  /\ opLog' = Append(opLog, LogEntry("delInst", s, id, "", watchingI))
  /\ UNCHANGED <<metaStore, watchM, watcherVars, registryVars, ev, reqVars, aloneVars, stop>>

\* ------------------------------------------------------------------------
\* Watcher.Start and the two watch goroutines
\* ------------------------------------------------------------------------

\* a channel that never makes the sender wait
CanSendAlways(out) == TRUE

\* w.eventChan <- e, for each event of out (at most one); blocks while the
\* buffer is full
CanSend(out) == Len(eventChan) + Len(out) <= EventChanCap

Send(out) ==
  /\ eventChan' = eventChan \o out
  /\ emitted' = emitted \o out

\* loadExistingServicesAndInstances: the metadata snapshot
LoadMetadata ==
  /\ wpc = "new"
  /\ initialLoading' = TRUE
  /\ LET r == LoadMeta([meta |-> metadataMap, out |-> <<>>], instancesMap, metaStore, 1)
     IN /\ metadataMap' = r.meta
        /\ CanSend(r.out) /\ Send(r.out)
  /\ wpc' = "metaLoaded"
  /\ UNCHANGED <<storeVars, watchingM, watchingI, instancesMap, toEmit,
                 registryVars, ev, reqVars, aloneVars, stop>>

\* loadExistingServicesAndInstances: the instance snapshot, the end of the
\* initial load
LoadInstances ==
  /\ wpc = "metaLoaded"
  /\ LET r == LoadInst(metadataMap, [inst |-> instancesMap, out |-> <<>>], instStore, 1, 1)
     IN /\ instancesMap' = r.inst
        /\ CanSend(r.out) /\ Send(r.out)
  /\ initialLoading' = FALSE
  /\ toEmit' = DOMAIN metadataMap
  /\ wpc' = "emitting"
  /\ UNCHANGED <<storeVars, watchingM, watchingI, metadataMap,
                 registryVars, ev, reqVars, aloneVars, stop>>

\* loadExistingServicesAndInstances: one turn of the loop that sends the
\* initial events, in the order the map iteration yields the services
EmitInitial(s) ==
  /\ wpc = "emitting"
  /\ s \in toEmit
  /\ LET insts == IF s \in DOMAIN instancesMap THEN instancesMap[s] ELSE <<>>
         out == <<ServiceEvent("Add", metadataMap[s], insts)>>
     IN CanSend(out) /\ Send(out)
  /\ toEmit' = toEmit \ {s}
  /\ UNCHANGED <<storeVars, wpc, watchingM, watchingI, metadataMap, instancesMap,
                 initialLoading, registryVars, ev, reqVars, aloneVars, stop>>

\* Start returns: the two watch goroutines and then processEvents are started
StartReturns ==
  /\ wpc = "emitting"
  /\ toEmit = {}
  /\ wpc' = "started"
  /\ UNCHANGED <<storeVars, watchingM, watchingI, metadataMap, instancesMap,
                 initialLoading, toEmit, eventChan, emitted, registryVars, ev,
                 reqVars, aloneVars, stop>>

\* watchMetadata: client.Watch on the metadata prefix
OpenMetadataWatch ==
  /\ wpc = "started"
  /\ ~watchingM
  /\ watchingM' = TRUE
  /\ UNCHANGED <<storeVars, wpc, watchingI, metadataMap, instancesMap,
                 initialLoading, toEmit, eventChan, emitted, registryVars, ev,
                 reqVars, aloneVars, stop>>

\* watchInstances: client.Watch on the discovery prefix
OpenInstanceWatch ==
  /\ wpc = "started"
  /\ ~watchingI
  /\ watchingI' = TRUE
  /\ UNCHANGED <<storeVars, wpc, watchingM, metadataMap, instancesMap,
                 initialLoading, toEmit, eventChan, emitted, registryVars, ev,
                 reqVars, aloneVars, stop>>

\* watchMetadata: one event of the stream handled
WatchMetadataEvent ==
  /\ watchingM
  /\ watchM # <<>>
  /\ LET r == handleMetadataEvent(metadataMap, instancesMap, initialLoading, Head(watchM))
     IN /\ CanSend(r.out) /\ Send(r.out)
        /\ metadataMap' = r.meta
  /\ watchM' = Tail(watchM)
  /\ UNCHANGED <<metaStore, instStore, watchI, opLog, wpc, watchingM, watchingI,
                 instancesMap, initialLoading, toEmit, registryVars, ev, reqVars,
                 aloneVars, stop>>

\* watchInstances: one event of the stream handled
WatchInstanceEvent ==
  /\ watchingI
  /\ watchI # <<>>
  /\ LET r == handleInstanceEvent(metadataMap, instancesMap, initialLoading,
                                  Head(watchI), instStore, TRUE)
     IN /\ CanSend(r.out) /\ Send(r.out)
        /\ instancesMap' = r.inst
  /\ watchI' = Tail(watchI)
  /\ UNCHANGED <<metaStore, instStore, watchM, opLog, wpc, watchingM, watchingI,
                 metadataMap, initialLoading, toEmit, registryVars, ev, reqVars,
                 aloneVars, stop>>

\* watchInstances: a Delete handled while the store cannot be read (the Get
\* of the Delete branch returns an error)
WatchInstanceDeleteGetFails ==
  /\ watchingI
  /\ watchI # <<>>
  /\ Head(watchI).type = "delete"
  /\ Head(watchI).svc \in DOMAIN instancesMap
  /\ Inputs < MaxOps
  /\ LET r == handleInstanceEvent(metadataMap, instancesMap, initialLoading,
                                  Head(watchI), instStore, FALSE)
     IN /\ CanSend(r.out) /\ Send(r.out)
        /\ instancesMap' = r.inst
  /\ watchI' = Tail(watchI)
  /\ opLog' = Append(opLog, LogEntry("getFails", Head(watchI).svc, "", "", TRUE))
  /\ UNCHANGED <<metaStore, instStore, watchM, wpc, watchingM, watchingI,
                 metadataMap, initialLoading, toEmit, registryVars, ev, reqVars,
                 aloneVars, stop>>

\* ------------------------------------------------------------------------
\* The route registry (HTTPRouter), its service pools and invokers.  pools
\* and invs are the ServicePool and GRPCInvoker objects allocated so far; a
\* pointer to one is its index.
\* ------------------------------------------------------------------------

\* descriptor sets desc.CreateFileDescriptorsFromSet rejects, and targets
\* grpc.NewClient rejects
BrokenDescs == {"X1"}

BadTargets == {<<"unix", ":", "50051">>}

\* transcoder.NewGRPCInvoker: the invoker and the parsed descriptors, or an
\* error
NewGRPCInvoker(address, fds) ==
  IF address \in BadTargets \/ fds \in BrokenDescs
  THEN [err |-> TRUE, files |-> ""]
  ELSE [err |-> FALSE, files |-> fds,
        invoker |-> [address |-> address, desc |-> fds, closed |-> FALSE]]

\* A signed 64-bit integer b * 2^63 + o, written with a small offset o from
\* zero (b = 0), from 2^63 (b = 1, o < 0) or from -2^63 (b = -1, o >= 0)
Int64(o) == [b |-> 0, o |-> o]

MaxInt64 == [b |-> 1, o |-> -1]

MinInt64 == [b |-> -1, o |-> 0]

\* x + d in int64 arithmetic for 0 <= d: past the maximum the sum wraps
AddInt64(x, d) ==
  IF x.b = 1 /\ x.o + d >= 0 THEN [b |-> -1, o |-> x.o + d]
  ELSE [b |-> x.b, o |-> x.o + d]

\* 2^k modulo n
RECURSIVE Pow2Mod(_, _)
Pow2Mod(k, n) == IF k = 0 THEN 1 % n ELSE (2 * Pow2Mod(k - 1, n)) % n

\* the remainder of the truncated division of Go's % operator
GoRem(a, n) == IF a >= 0 THEN a % n ELSE -((-a) % n)

\* int(x % int64(n)) for 0 < n: the remainder has the sign of x
RemInt64(x, n) ==
  CASE x.b = 0 -> GoRem(x.o, n)
    [] x.b = 1 -> (Pow2Mod(63, n) + (-x.o) * (n - 1)) % n
    [] x.b = -1 -> -((Pow2Mod(63, n) + x.o * (n - 1)) % n)

NewPool(s) ==
  [serviceName |-> s, invokers |-> <<>>, instances |-> <<>>, counter |-> Int64(0)]

Route(s, rule) == [ServiceName |-> s, HttpRule |-> rule]

RouteKeys(s) == IF s \in DOMAIN routeIndex THEN routeIndex[s] ELSE {}

\* the scan of getNextInvoker from offset i on; an index outside the slice
\* panics
RECURSIVE ScanInvokers(_, _, _, _)
ScanInvokers(pool, start, n, i) ==
  IF i >= n THEN [err |-> "NoInvokers", inv |-> 0]
  ELSE LET idx == RemInt64(AddInt64(start, i), n) IN
       IF idx < 0 THEN [err |-> "panic", inv |-> 0]
       ELSE LET addr == pool.instances[idx + 1].Addr IN
            IF addr \in DOMAIN pool.invokers
            THEN [err |-> "", inv |-> pool.invokers[addr]]
            ELSE ScanInvokers(pool, start, n, i + 1)

\* ServicePool.getNextInvoker: the result and the counter after the call
getNextInvoker(pool) ==
  IF Len(pool.instances) = 0
  THEN [err |-> "NoInstances", inv |-> 0, counter |-> pool.counter]
  ELSE LET start == AddInt64(pool.counter, 1)
           r == ScanInvokers(pool, start, Len(pool.instances), 0)
       IN [err |-> r.err, inv |-> r.inv, counter |-> start]

\* a call to the network by a caller that holds the locks of held: nothing
\* to record when it holds none
UnderLock(call, by, held) ==
  IF held = {} THEN {} ELSE {[call |-> call, by |-> by, held |-> held]}

\* CloseAll with the Close calls left out
CloseAllForgotten(heap, ids) == heap

\* for _, inv := range toClose { inv.Close() }
CloseAll(heap, ids) ==
  [i \in 1..Len(heap) |-> IF i \in ids THEN [heap[i] EXCEPT !.closed = TRUE] ELSE heap[i]]

\* processEvents: an event received from the channel; handleEvent calls
\* RegisterService for Add and Update, UnRegisterService for Delete, and
\* both return at once for a blank service name
ReceiveEvent ==
  /\ wpc = "started"
  /\ ev.pc = "idle"
  /\ eventChan # <<>>
  /\ eventChan' = Tail(eventChan)
  /\ LET e == Head(eventChan) IN
     ev' = IF e.name = "" THEN EvIdle
           ELSE [EvIdle EXCEPT !.e = e,
                   !.pc = IF e.type = "Delete" THEN "unregRoutes" ELSE "regPool"]
  /\ UNCHANGED <<storeVars, wpc, watchingM, watchingI, metadataMap, instancesMap,
                 initialLoading, toEmit, emitted, registryVars, reqVars, aloneVars, stop>>

\* RegEnsurePool with the routes registered only by the call that creates
\* the pool
RegEnsurePoolFirstOnly ==
  /\ ev.pc = "regPool"
  /\ LET s == ev.e.name
         exists == s \in DOMAIN servicePools
         pid == IF exists THEN servicePools[s] ELSE Len(pools) + 1
     IN /\ pools' = IF exists THEN pools ELSE Append(pools, NewPool(s))
        /\ servicePools' = IF exists THEN servicePools ELSE (s :> pid) @@ servicePools
        /\ ev' = [ev EXCEPT !.pc = "regPlan", !.pool = pid, !.need = ~exists]
  /\ UNCHANGED <<storeVars, watcherVars, tree, invs, routeIndex, pathIndex,
                 reqVars, aloneVars, stop>>

\* RegisterService, under r.mu: the pool resolved or created, and whether
\* the routes are to be registered
RegEnsurePool ==
  /\ ev.pc = "regPool"
  /\ LET s == ev.e.name
         exists == s \in DOMAIN servicePools
         pid == IF exists THEN servicePools[s] ELSE Len(pools) + 1
     IN /\ pools' = IF exists THEN pools ELSE Append(pools, NewPool(s))
        /\ servicePools' = IF exists THEN servicePools ELSE (s :> pid) @@ servicePools
        /\ ev' = [ev EXCEPT !.pc = "regPlan", !.pool = pid,
                            !.need = (Cardinality(RouteKeys(s)) = 0)]
  /\ UNCHANGED <<storeVars, watcherVars, tree, invs, routeIndex, pathIndex,
                 reqVars, aloneVars, stop>>

\* the instances of list whose address has no invoker among existing
RECURSIVE MissingInvokers(_, _)
MissingInvokers(list, existing) ==
  IF list = <<>> THEN <<>>
  ELSE IF Head(list).Addr \in existing THEN MissingInvokers(Tail(list), existing)
  ELSE <<Head(list)>> \o MissingInvokers(Tail(list), existing)

\* RegisterService, under pool.mu (read): the invokers copied, and the
\* instances that need one
RegPlan ==
  /\ ev.pc = "regPlan"
  /\ ev' = [ev EXCEPT !.pc = "regCreate",
              !.toCreate = MissingInvokers(ev.e.insts, DOMAIN pools[ev.pool].invokers)]
  /\ UNCHANGED <<storeVars, watcherVars, registryVars, reqVars, aloneVars, stop>>

\* CreateInvokers with the loop left at the first NewGRPCInvoker that fails
RECURSIVE CreateInvokersUntilError(_, _, _, _, _, _)
CreateInvokersUntilError(list, fds, need, heap, created, first) ==
  IF list = <<>> THEN [heap |-> heap, created |-> created, first |-> first]
  ELSE LET r == NewGRPCInvoker(Head(list).Addr, fds) IN
       IF r.err THEN [heap |-> heap, created |-> created, first |-> first]
       ELSE CreateInvokersUntilError(Tail(list), fds, need, Append(heap, r.invoker),
              (Head(list).Addr :> (Len(heap) + 1)) @@ created,
              IF need /\ first = "" /\ FileCount(r.files) > 0 THEN r.files ELSE first)

\* the loop that creates the missing invokers: the invokers allocated, the
\* created map and the first descriptors captured
RECURSIVE CreateInvokers(_, _, _, _, _, _)
CreateInvokers(list, fds, need, heap, created, first) ==
  IF list = <<>> THEN [heap |-> heap, created |-> created, first |-> first]
  ELSE LET r == NewGRPCInvoker(Head(list).Addr, fds) IN
       IF r.err THEN CreateInvokers(Tail(list), fds, need, heap, created, first)
       ELSE CreateInvokers(Tail(list), fds, need, Append(heap, r.invoker),
              (Head(list).Addr :> (Len(heap) + 1)) @@ created,
              IF need /\ first = "" /\ FileCount(r.files) > 0 THEN r.files ELSE first)

\* RegisterService, outside the locks: the missing invokers created
RegCreate ==
  /\ ev.pc = "regCreate"
  /\ LET r == CreateInvokers(ev.toCreate, ev.e.desc, ev.need, invs, <<>>, "") IN
     /\ invs' = r.heap
     /\ ev' = [ev EXCEPT !.pc = "regMerge", !.created = r.created, !.first = r.first]
  /\ io' = io \cup (IF ev.toCreate = <<>> THEN {}
                     ELSE UnderLock("NewGRPCInvoker", "RegisterService", {}))
  /\ UNCHANGED <<storeVars, watcherVars, tree, servicePools, pools, routeIndex,
                 pathIndex, reqVars, treeOps, treeCall, treeWas, poolCalls, freeze, wr, lk, composed, wt, stop>>

\* MergePool without the loop that unlinks the invokers of vanished addresses
MergePoolNoUnlink(pool, insts, created) ==
  [pool EXCEPT !.instances = insts, !.invokers = created @@ pool.invokers]

\* the body of the pool.mu section of RegisterService: the pool after it
MergePool(pool, insts, created) ==
  LET addrSet == InstAddrs(insts)
      merged == created @@ pool.invokers
      alive == {a \in DOMAIN merged : a \in addrSet}
  IN [pool EXCEPT !.instances = insts, !.invokers = [a \in alive |-> merged[a]]]

\* RegisterService, under pool.mu: the instance list replaced, the new
\* invokers linked, those of vanished addresses unlinked
RegMerge ==
  /\ ev.pc = "regMerge"
  /\ LET pool == pools[ev.pool]
         merged == ev.created @@ pool.invokers
         after == MergePool(pool, ev.e.insts, ev.created)
     IN /\ pools' = [pools EXCEPT ![ev.pool] = after]
        /\ ev' = [ev EXCEPT !.pc = "regClose",
                    !.toClose = {merged[a] : a \in DOMAIN merged \ DOMAIN after.invokers}]
  /\ UNCHANGED <<storeVars, watcherVars, tree, servicePools, invs, routeIndex,
                 pathIndex, reqVars, aloneVars, stop>>

\* RegisterService, outside the locks: the unlinked invokers closed; then
\* the routes are registered if the service has none and descriptors came
RegClose ==
  /\ ev.pc = "regClose"
  /\ invs' = CloseAll(invs, ev.toClose)
  /\ ev' = IF ev.need /\ ev.first # "" /\ DescRules(ev.first) # <<>>
           THEN [ev EXCEPT !.pc = "regRoutes", !.toClose = {},
                           !.rules = DescRules(ev.first)]
           ELSE EvIdle
  /\ io' = io \cup (IF ev.toClose = {} THEN {}
                     ELSE UnderLock("Close", "RegisterService", {}))
  /\ UNCHANGED <<storeVars, watcherVars, tree, servicePools, pools, routeIndex,
                 pathIndex, reqVars, treeOps, treeCall, treeWas, poolCalls, freeze, wr, lk, composed, wt, stop>>

\* RegisterService, under r.mu: one HTTP rule checked against pathIndex,
\* inserted into the tree and recorded in both indexes
RegInsertRoute ==
  /\ ev.pc = "regRoutes"
  /\ LET rule == Head(ev.rules)
         s == ev.e.name
         pathKey == RuleKey(rule)
         r == Insert(tree, pathKey, Route(s, rule))
     IN IF pathKey \in pathIndex
        THEN UNCHANGED <<tree, routeIndex, pathIndex>>
        ELSE /\ tree' = r.tree
             /\ IF r.err # "ok" THEN UNCHANGED <<routeIndex, pathIndex>>
                ELSE /\ routeIndex' = (s :> (RouteKeys(s) \cup {pathKey})) @@ routeIndex
                     /\ pathIndex' = pathIndex \cup {pathKey}
  /\ ev' = IF Tail(ev.rules) = <<>> THEN EvIdle ELSE [ev EXCEPT !.rules = Tail(ev.rules)]
  /\ UNCHANGED <<storeVars, watcherVars, servicePools, pools, invs, reqVars, aloneVars, stop>>

\* DeleteAll with the Delete calls left out
DeleteAllForgotten(t, keys) == t

\* for pathKey := range pathsSet { r.routerTree.Delete(pathKey) }: each
\* Delete follows the segments of its own key, so the order of the map
\* iteration does not change the tree that results
RECURSIVE DeleteAll(_, _)
DeleteAll(t, keys) ==
  IF keys = {} THEN t
  ELSE LET k == CHOOSE x \in keys : TRUE IN
       DeleteAll(Delete(t, k).tree, keys \ {k})

\* UnRegisterService, under r.mu: the routes of the service deleted from the
\* tree and the indexes, its pool dropped from the map
UnregRoutes ==
  /\ ev.pc = "unregRoutes"
  /\ LET s == ev.e.name IN
     /\ tree' = DeleteAll(tree, RouteKeys(s))
     /\ pathIndex' = pathIndex \ RouteKeys(s)
     /\ routeIndex' = IF s \in DOMAIN routeIndex THEN Without(routeIndex, s) ELSE routeIndex
     /\ servicePools' = IF s \in DOMAIN servicePools THEN Without(servicePools, s)
                        ELSE servicePools
     /\ ev' = IF s \in DOMAIN servicePools
              THEN [ev EXCEPT !.pc = "unregClear", !.pool = servicePools[s]]
              ELSE EvIdle
  /\ UNCHANGED <<storeVars, watcherVars, pools, invs, reqVars, aloneVars, stop>>

\* UnRegisterService, under pool.mu: every invoker unlinked, the instance
\* list cleared
UnregClear ==
  /\ ev.pc = "unregClear"
  /\ LET pool == pools[ev.pool] IN
     /\ pools' = [pools EXCEPT ![ev.pool] = [pool EXCEPT !.invokers = <<>>,
                                                         !.instances = <<>>]]
     /\ ev' = [ev EXCEPT !.pc = "unregClose",
                 !.toClose = {pool.invokers[a] : a \in DOMAIN pool.invokers}]
  /\ UNCHANGED <<storeVars, watcherVars, tree, servicePools, invs, routeIndex,
                 pathIndex, reqVars, aloneVars, stop>>

\* UnRegisterService, outside the locks: the unlinked invokers closed
UnregClose ==
  /\ ev.pc = "unregClose"
  /\ invs' = CloseAll(invs, ev.toClose)
  /\ ev' = EvIdle
  /\ io' = io \cup (IF ev.toClose = {} THEN {}
                     ELSE UnderLock("Close", "UnRegisterService", {}))
  /\ UNCHANGED <<storeVars, watcherVars, tree, servicePools, pools, routeIndex,
                 pathIndex, reqVars, treeOps, treeCall, treeWas, poolCalls, freeze, wr, lk, composed, wt, stop>>

\* ------------------------------------------------------------------------
\* The request pipeline (HTTPRouter.ServeHTTP)
\* ------------------------------------------------------------------------

JString(v) == [kind |-> "string", val |-> v]

JArray(vs) == [kind |-> "array", val |-> vs]

JObject(fields) == [kind |-> "object", val |-> fields]

\* a request body: no bytes, bytes that are no JSON, or a JSON value
NoBody == [kind |-> "empty", val |-> <<>>]

JInvalid == [kind |-> "invalid", val |-> <<>>]

JNull == [kind |-> "null", val |-> <<>>]

\* the requests of the model; a path is the URL path, the query parsed
ReqGetUser ==
  [method |-> <<"GET">>, path |-> <<"/", "v1", "/", "users", "/", "123">>,
   query |-> <<>>, body |-> NoBody]

ReqPing ==
  [method |-> <<"GET">>, path |-> <<"/", "v1", "/", "ping">>,
   query |-> <<>>, body |-> NoBody]

ReqFiles ==
  [method |-> <<"GET">>, path |-> <<"/", "f", "/", "x", "/", "y">>,
   query |-> <<>>, body |-> NoBody]

ReqCreateUser ==
  [method |-> <<"POST">>, path |-> <<"/", "v1", "/", "users">>,
   query |-> (<<"source">> :> << <<"web">> >>),
   body |-> JObject((<<"name">> :> JString(<<"Tom">>)))]

Requests == {ReqGetUser, ReqPing, ReqFiles, ReqCreateUser}

\* the gRPC codes the backend answers with in the model: OK, Unavailable
BackendCodes == {0, 14}

\* the answer of the backend for a code of BackendCodes
AnswerOf(code) == IF code = 0 THEN OkAnswer ELSE StatusAnswer(code, "upstream")

\* the error of an invocation on a closed connection: Canceled
ClientConnClosing == StatusAnswer(1, "the client connection is closing")

\* mapGRPCCodeToHTTP with every error mapped to 500
mapGRPCCodeToHTTPInternal(code) == IF code = 0 THEN 200 ELSE 500

\* mapGRPCCodeToHTTP
mapGRPCCodeToHTTP(code) ==
  CASE code = 0 -> 200
    [] code = 1 -> 408
    [] code = 2 -> 500
    [] code = 3 -> 400
    [] code = 4 -> 408
    [] code = 5 -> 404
    [] code = 6 -> 409
    [] code = 7 -> 403
    [] code = 8 -> 429
    [] code = 9 -> 400
    [] code = 10 -> 409
    [] code = 11 -> 400
    [] code = 12 -> 501
    [] code = 13 -> 500
    [] code = 14 -> 503
    [] code = 15 -> 500
    [] code = 16 -> 401
    [] OTHER -> 200

\* mapErrorToHTTP: the HTTP status and the envelope of an invocation error
mapErrorToHTTP(err) ==
  IF err.kind = "status"
  THEN [status |-> mapGRPCCodeToHTTP(err.code), code |-> err.code, msg |-> err.msg]
  ELSE [status |-> 500, code |-> -1, msg |-> err.msg]

\* the loop of BuildRequestJSON over the query parameters
QueryPart(query) ==
  [k \in DOMAIN query |-> IF Len(query[k]) = 1 THEN JString(query[k][1])
                          ELSE JArray(query[k])]

\* BuildRequestJSON with the body written first, so that the path and query
\* parameters override its keys
BuildRequestJSONBodyFirst(req, pathParams, bodyField) ==
  LET base == QueryPart(req.query) @@ [k \in DOMAIN pathParams |-> JString(pathParams[k])]
  IN IF req.method = <<"GET">> \/ req.method = <<"DELETE">> \/ req.body.kind = "empty"
     THEN [err |-> FALSE, map |-> base]
     ELSE IF bodyField = <<"*">>
       THEN IF req.body.kind = "null" THEN [err |-> FALSE, map |-> base]
            ELSE IF req.body.kind # "object" THEN [err |-> TRUE, map |-> <<>>]
            ELSE [err |-> FALSE, map |-> base @@ req.body.val]
     ELSE IF bodyField # <<>>
       THEN IF req.body.kind = "invalid" THEN [err |-> TRUE, map |-> <<>>]
            ELSE [err |-> FALSE, map |-> base @@ (bodyField :> req.body)]
     ELSE [err |-> FALSE, map |-> base]

\* transcoder.BuildRequestJSON: the request map, or an error.  Unmarshal of
\* the body into a map accepts an object and null (which leaves the map
\* without keys); into an interface it accepts any JSON value.
BuildRequestJSON(req, pathParams, bodyField) ==
  LET base == QueryPart(req.query) @@ [k \in DOMAIN pathParams |-> JString(pathParams[k])]
  IN IF req.method = <<"GET">> \/ req.method = <<"DELETE">> \/ req.body.kind = "empty"
     THEN [err |-> FALSE, map |-> base]
     ELSE IF bodyField = <<"*">>
       THEN IF req.body.kind = "null" THEN [err |-> FALSE, map |-> base]
            ELSE IF req.body.kind # "object" THEN [err |-> TRUE, map |-> <<>>]
            ELSE [err |-> FALSE, map |-> req.body.val @@ base]
     ELSE IF bodyField # <<>>
       THEN IF req.body.kind = "invalid" THEN [err |-> TRUE, map |-> <<>>]
            ELSE [err |-> FALSE, map |-> (bodyField :> req.body) @@ base]
     ELSE [err |-> FALSE, map |-> base]

Response(status, code, msg) ==
  [status |-> status, code |-> code, msg |-> msg, inv |-> 0, payload |-> <<>>,
   upstream |-> NoAnswer]

\* ServeHTTP: the route matched, or 404
ReqLookup(req) ==
  /\ rq.pc = "idle"
  /\ Inputs < MaxOps
  /\ served' = served + 1
  /\ LET pathKey == normalizePath(ToUpper(req.method), req.path)
         m == Lookup(tree, pathKey)
     IN IF ~m.found
        THEN /\ resp' = Response(404, 404, "No route found")
             /\ rq' = RqIdle
        ELSE /\ rq' = [RqIdle EXCEPT !.pc = "pool", !.req = req, !.route = m.value,
                                     !.params = m.params]
             /\ UNCHANGED resp
  /\ UNCHANGED <<storeVars, watcherVars, registryVars, ev, aloneVars, stop>>

\* ServeHTTP: the pool of the route's service read from the map, or 503
ReqPool ==
  /\ rq.pc = "pool"
  /\ IF rq.route.ServiceName \notin DOMAIN servicePools
     THEN /\ resp' = Response(503, 503, "Service not available")
          /\ rq' = RqIdle
     ELSE /\ rq' = [rq EXCEPT !.pc = "next", !.pool = servicePools[rq.route.ServiceName]]
          /\ UNCHANGED resp
  /\ UNCHANGED <<storeVars, watcherVars, registryVars, ev, served, aloneVars, stop>>

\* ServeHTTP reads r.servicePools without r.mu: a read made while the event
\* loop is writing the map may end the process (the runtime's "concurrent map
\* read and map write"), and every thread with it
MapWritePending ==
  \/ ev.pc = "regPool" /\ ev.e.name \notin DOMAIN servicePools
  \/ ev.pc = "unregRoutes"

ReqPoolFatal ==
  /\ rq.pc = "pool"
  /\ MapWritePending
  /\ rq' = [rq EXCEPT !.pc = "crashed"]
  /\ ev' = [ev EXCEPT !.pc = "crashed"]
  /\ wpc' = "crashed"
  /\ watchingM' = FALSE /\ watchingI' = FALSE
  /\ UNCHANGED <<storeVars, metadataMap, instancesMap, initialLoading, toEmit,
                 eventChan, emitted, registryVars, resp, served, aloneVars, stop>>

\* ServeHTTP: getNextInvoker under pool.mu (read), or 503
ReqNext ==
  /\ rq.pc = "next"
  /\ LET r == getNextInvoker(pools[rq.pool]) IN
     /\ pools' = [pools EXCEPT ![rq.pool].counter = r.counter]
     /\ IF r.err = "panic"
        THEN /\ resp' = Response(0, 0, "panic")
             /\ rq' = RqIdle
        ELSE IF r.err # ""
        THEN /\ resp' = Response(503, 503, "No available service instances")
             /\ rq' = RqIdle
        ELSE /\ rq' = [rq EXCEPT !.pc = "invoke", !.inv = r.inv]
             /\ UNCHANGED resp
  /\ UNCHANGED <<storeVars, watcherVars, tree, servicePools, invs, routeIndex,
                 pathIndex, ev, served, aloneVars, stop>>

\* ServeHTTP: the payload built (or 400), the method invoked on the invoker
\* and what came back mapped; an invocation on a closed connection fails
\* with Canceled without reaching the backend
ReqFinish(answer) ==
  /\ rq.pc = "invoke"
  /\ LET built == BuildRequestJSON(rq.req, rq.params, rq.route.HttpRule.body)
         closed == invs[rq.inv].closed
         result == IF closed THEN ClientConnClosing ELSE answer
         mapped == mapErrorToHTTP(result)
     IN resp' = IF built.err THEN Response(400, 400, "Failed to build request")
                ELSE IF result.kind = "ok"
                THEN [status |-> 200, code |-> 0, msg |-> "success",
                      inv |-> rq.inv, payload |-> built.map, upstream |-> answer]
                ELSE [status |-> mapped.status, code |-> mapped.code, msg |-> mapped.msg,
                      inv |-> rq.inv, payload |-> built.map,
                      upstream |-> IF closed THEN NoAnswer ELSE answer]
  /\ rq' = RqIdle
  /\ UNCHANGED <<storeVars, watcherVars, registryVars, ev, served, aloneVars, stop>>

\* ------------------------------------------------------------------------
\* The gateway
\* ------------------------------------------------------------------------

Next ==
  \/ \E s \in Services : \E v \in MetaVals(s) : StorePutMeta(s, v)
  \/ \E s \in Services : StoreDeleteMeta(s)
  \/ \E s \in Services : \E id \in InstIdsOf(s) : \E a \in InstVals(s) :
       StorePutInstance(s, id, a)
  \/ \E s \in Services : \E id \in InstIdsOf(s) : StoreDeleteInstance(s, id)
  \/ LoadMetadata
  \/ LoadInstances
  \/ \E s \in Services : EmitInitial(s)
  \/ StartReturns
  \/ OpenMetadataWatch
  \/ OpenInstanceWatch
  \/ WatchMetadataEvent
  \/ WatchInstanceEvent
  \/ WatchInstanceDeleteGetFails
  \/ ReceiveEvent
  \/ RegEnsurePool
  \/ RegPlan
  \/ RegCreate
  \/ RegMerge
  \/ RegClose
  \/ RegInsertRoute
  \/ UnregRoutes
  \/ UnregClear
  \/ UnregClose
  \/ \E req \in Requests : ReqLookup(req)
  \/ ReqPool
  \/ ReqPoolFatal
  \/ ReqNext
  \/ \E code \in BackendCodes : ReqFinish(AnswerOf(code))

Spec == Init /\ [][Next]_vars

\* ------------------------------------------------------------------------
\* Shutdown (HTTPGateway.Stop), called once Start has returned, while the
\* event loop applies the events of the initial load
\* ------------------------------------------------------------------------

\* Stop: g.cancel()
StopCancel ==
  /\ wpc = "started"
  /\ stop = "no"
  /\ stop' = "cancelled"
  /\ UNCHANGED <<storeVars, watcherVars, registryVars, ev, reqVars, aloneVars>>

\* processEvents: the select finds g.ctx.Done() ready and the loop returns;
\* with an event ready as well the select may take either, so ReceiveEvent
\* stays possible until the loop has returned
ProcessEventsReturns ==
  /\ stop # "no"
  /\ ev.pc = "idle"
  /\ ev' = [EvIdle EXCEPT !.pc = "returned"]
  /\ UNCHANGED <<storeVars, watcherVars, registryVars, reqVars, aloneVars, stop>>

\* Stop: g.server.Shutdown with its deadline of 30 s
StopServerShutdown ==
  /\ stop = "cancelled"
  /\ rq.pc = "idle"
  /\ stop' = "serverDown"
  /\ UNCHANGED <<storeVars, watcherVars, registryVars, ev, reqVars, aloneVars>>

\* Stop: g.watcher.Stop(), which cancels the two watches, closes the event
\* channel (the events in it can still be received) and closes the client
StopWatcher ==
  /\ stop = "serverDown"
  /\ watchingM' = FALSE
  /\ watchingI' = FALSE
  /\ stop' = "watcherStopped"
  /\ UNCHANGED <<storeVars, wpc, metadataMap, instancesMap, initialLoading, toEmit,
                 eventChan, emitted, registryVars, ev, reqVars, aloneVars>>

\* the invokers the pools of servicePools hold
PooledInvokers ==
  UNION {{pools[servicePools[s]].invokers[a] : a \in DOMAIN pools[servicePools[s]].invokers} :
           s \in DOMAIN servicePools}

\* Stop: g.router.Close(), under r.mu and under the lock of each pool in
\* turn: every invoker of every pool of servicePools closed; then Stop
\* returns
StopRouterClose ==
  /\ stop = "watcherStopped"
  /\ invs' = CloseAll(invs, PooledInvokers)
  /\ stop' = "returned"
  /\ io' = io \cup (IF PooledInvokers = {} THEN {}
                     ELSE UnderLock("Close", "Close", {"r.mu", "pool.mu"}))
  /\ UNCHANGED <<storeVars, watcherVars, tree, servicePools, pools, routeIndex,
                 pathIndex, ev, reqVars, treeOps, treeCall, treeWas, poolCalls, freeze, wr, lk, composed, wt>>

NextStop ==
  \/ LoadMetadata
  \/ LoadInstances
  \/ \E s \in Services : EmitInitial(s)
  \/ StartReturns
  \/ OpenMetadataWatch
  \/ OpenInstanceWatch
  \/ ReceiveEvent
  \/ RegEnsurePool
  \/ RegPlan
  \/ RegCreate
  \/ RegMerge
  \/ RegClose
  \/ RegInsertRoute
  \/ StopCancel
  \/ ProcessEventsReturns
  \/ StopServerShutdown
  \/ StopWatcher
  \/ StopRouterClose

SpecStop == Init /\ [][NextStop]_vars

\* ------------------------------------------------------------------------
\* Requests served while RegisterService registers routes. ServeHTTP calls
\* routerTree.Lookup without r.mu, so the lock that covers RegisterService's
\* check, Insert and index update does not keep a Lookup out: the Lookup
\* waits only for the tree's own lock, which Insert gives back on return
\* ------------------------------------------------------------------------

\* RegisterService, under r.mu: one HTTP rule checked against pathIndex and
\* inserted into the tree; Insert has returned, the indexes are not written
\* yet
RegRouteInsert ==
  /\ ev.pc = "regRoutes"
  /\ LET rule == Head(ev.rules)
         pathKey == RuleKey(rule)
         r == Insert(tree, pathKey, Route(ev.e.name, rule))
         next == IF Tail(ev.rules) = <<>> THEN EvIdle
                 ELSE [ev EXCEPT !.rules = Tail(ev.rules)]
     IN IF pathKey \in pathIndex
        THEN /\ ev' = next
             /\ UNCHANGED tree
        ELSE /\ tree' = r.tree
             /\ ev' = IF r.err # "ok" THEN next ELSE [ev EXCEPT !.pc = "regIndex"]
  /\ UNCHANGED <<storeVars, watcherVars, servicePools, pools, invs, routeIndex,
                 pathIndex, reqVars, aloneVars, stop>>

\* RegisterService, still under r.mu: the key recorded in routeIndex and
\* pathIndex, and r.mu released
RegRouteIndex ==
  /\ ev.pc = "regIndex"
  /\ LET s == ev.e.name
         pathKey == RuleKey(Head(ev.rules))
     IN /\ routeIndex' = (s :> (RouteKeys(s) \cup {pathKey})) @@ routeIndex
        /\ pathIndex' = pathIndex \cup {pathKey}
  /\ ev' = IF Tail(ev.rules) = <<>> THEN EvIdle ELSE [ev EXCEPT !.pc = "regRoutes",
                                                                !.rules = Tail(ev.rules)]
  /\ UNCHANGED <<storeVars, watcherVars, tree, servicePools, pools, invs, reqVars,
                 aloneVars, stop>>

NextServe ==
  \/ LoadMetadata
  \/ LoadInstances
  \/ \E s \in Services : EmitInitial(s)
  \/ StartReturns
  \/ ReceiveEvent
  \/ RegEnsurePool
  \/ RegPlan
  \/ RegCreate
  \/ RegMerge
  \/ RegClose
  \/ RegRouteInsert
  \/ RegRouteIndex
  \/ \E req \in Requests : ReqLookup(req)
  \/ ReqPool
  \/ ReqNext
  \/ \E code \in BackendCodes : ReqFinish(AnswerOf(code))

SpecServe == Init /\ [][NextServe]_vars

\* ------------------------------------------------------------------------
\* The route tree on its own: any caller, any order of calls
\* ------------------------------------------------------------------------

\* the paths handed to the tree
TreePaths ==
  { <<"/", "a">>,
    <<"/", "a", "/", "b">>,
    <<"/", "a", "/", ":", "x">>,
    <<"/", "a", "/", ":", "y">>,
    <<"/", "a", "/", "*", "w">>,
    <<"/", "a", "/", "*", "v">>,
    <<"/", "a", "/", ":", "x", "/", "c">>,
    <<"/", "a", "/", "*", "w", "/", "c">>,
    <<"/", "*", "w">>,
    <<"/", "*", "rest">> }

\* the values stored
TreeValues == {[ServiceName |-> "user", HttpRule |-> RulePing],
               [ServiceName |-> "ping", HttpRule |-> RulePing]}

InitTree ==
  /\ metaStore = <<>> /\ instStore = <<>>
  /\ InitGateway

TreeInsert(path, val) ==
  /\ treeOps < MaxTreeOps
  /\ LET r == Insert(tree, path, val) IN
     /\ tree' = r.tree
     /\ treeCall' = <<"Insert", path, r.err, val>>
  /\ treeWas' = [tree |-> tree, call |-> treeCall]
  /\ treeOps' = treeOps + 1
  /\ UNCHANGED <<storeVars, watcherVars, servicePools, pools, invs, routeIndex,
                 pathIndex, ev, reqVars, poolCalls, stop, freeze, wr, lk, io, composed, wt>>

TreeDelete(path) ==
  /\ treeOps < MaxTreeOps
  /\ LET r == Delete(tree, path) IN
     /\ tree' = r.tree
     /\ treeCall' = <<"Delete", path, IF r.ok THEN "true" ELSE "false">>
  /\ treeWas' = [tree |-> tree, call |-> treeCall]
  /\ treeOps' = treeOps + 1
  /\ UNCHANGED <<storeVars, watcherVars, servicePools, pools, invs, routeIndex,
                 pathIndex, ev, reqVars, poolCalls, stop, freeze, wr, lk, io, composed, wt>>

NextTree ==
  \/ \E path \in TreePaths : \E val \in TreeValues : TreeInsert(path, val)
  \/ \E path \in TreePaths : TreeDelete(path)

SpecTree == InitTree /\ [][NextTree]_vars

\* the route tree with Update among its calls
TreeUpdate(path, newVal, apply) ==
  /\ treeOps < MaxTreeOps
  /\ LET r == Update(tree, path, newVal, apply) IN
     /\ tree' = r.tree
     /\ treeCall' = <<"Update", path, IF r.ok THEN "true" ELSE "false",
                      IF r.called THEN "called" ELSE "notCalled">>
  /\ treeWas' = [tree |-> tree, call |-> treeCall]
  /\ treeOps' = treeOps + 1
  /\ UNCHANGED <<storeVars, watcherVars, servicePools, pools, invs, routeIndex,
                 pathIndex, ev, reqVars, poolCalls, stop, freeze, wr, lk, io, composed, wt>>

\* the keys Delete and Update are called with and never inserted: a path
\* that a stored template matches through its parameter
ProbePaths == { <<"/", "a", "/", "123">>, <<"/", "a", "/", "b", "/", "c">> }

NextUpdate ==
  \/ \E path \in TreePaths : \E val \in TreeValues : TreeInsert(path, val)
  \/ \E path \in TreePaths \cup ProbePaths : TreeDelete(path)
  \/ \E path \in TreePaths \cup ProbePaths : \E val \in TreeValues :
       \E apply \in BOOLEAN : TreeUpdate(path, val, apply)

SpecUpdate == InitTree /\ [][NextUpdate]_vars

\* ------------------------------------------------------------------------
\* The route tree under concurrent callers: one thread calls Insert and
\* Delete, another calls Lookup; the steps of a call are the points at which
\* the other thread could see the nodes, were it not for the lock
\* ------------------------------------------------------------------------

\* the paths looked up while the tree changes
ConcLookups == { <<"/", "a", "/", "b">>, <<"/", "a">> }

\* r.freeze.RLock() returns: no writer holds the lock
CanRLockAlways(fz) == TRUE

CanRLock(fz) == ~fz.writer

\* r.freeze.Lock() returns: nobody holds the lock
CanLock(fz) == ~fz.writer /\ fz.readers = 0

\* Insert or Delete called, up to r.freeze.Lock()
WrCall(op, path, val) ==
  /\ wr.pc = "idle"
  /\ treeOps < MaxTreeOps
  /\ ~BadPath(path)
  /\ wr' = [WrIdle EXCEPT !.pc = "called", !.op = op, !.path = path, !.val = val]
  /\ UNCHANGED <<storeVars, watcherVars, registryVars, ev, reqVars, treeOps, treeCall, treeWas,
                 poolCalls, stop, freeze, lk, io, composed, wt>>

\* r.freeze.Lock() taken and the root loaded
WrLock ==
  /\ wr.pc = "called"
  /\ CanLock(freeze)
  /\ freeze' = [freeze EXCEPT !.writer = TRUE]
  /\ wr' = [wr EXCEPT !.pc = "locked", !.before = tree]
  /\ UNCHANGED <<storeVars, watcherVars, registryVars, ev, reqVars, treeOps, treeCall, treeWas,
                 poolCalls, stop, lk, io, composed, wt>>

\* the loop over the segments: Insert creates the missing nodes, Delete
\* finds the node and, under its valueMu, clears its value
WrWalk ==
  /\ wr.pc = "locked"
  /\ IF wr.op = "Insert"
     THEN LET w == InsertWalk(tree, <<>>, splitPath(wr.path), 1) IN
          /\ tree' = w.tree
          /\ wr' = [wr EXCEPT !.pc = "walked", !.cur = w.cur, !.ok = (w.err = "ok")]
     ELSE LET w == MatchWalk(tree, <<>>, splitPath(wr.path), 1, << <<>> >>, NoParams)
              had == w.found /\ tree[w.cur].value # NoValue
          IN /\ tree' = IF w.found THEN [tree EXCEPT ![w.cur] = EmptyNode] ELSE tree
             /\ wr' = [wr EXCEPT !.pc = "walked", !.cur = w.cur, !.stack = w.stack,
                                 !.ok = had]
  /\ UNCHANGED <<storeVars, watcherVars, servicePools, pools, invs, routeIndex,
                 pathIndex, ev, reqVars, treeOps, treeCall, treeWas, poolCalls, stop, freeze, lk, io, composed, wt>>

\* the rest of the call: Insert assigns the value under valueMu, Delete
\* unlinks the nodes left empty; the root stored, the lock released
WrReturn ==
  /\ wr.pc = "walked"
  /\ tree' = IF ~wr.ok THEN tree
             ELSE IF wr.op = "Insert"
             THEN [tree EXCEPT ![wr.cur] = [value |-> wr.val, fullPath |-> wr.path]]
             ELSE Compact(tree, wr.stack, Len(wr.stack))
  /\ freeze' = [freeze EXCEPT !.writer = FALSE]
  /\ wr' = WrIdle
  /\ treeOps' = treeOps + 1
  /\ UNCHANGED <<storeVars, watcherVars, servicePools, pools, invs, routeIndex,
                 pathIndex, ev, reqVars, treeCall, treeWas, poolCalls, stop, lk, io, composed, wt>>

\* Lookup called, up to r.freeze.RLock()
LkCall(path) ==
  /\ lk.pc = "idle"
  /\ lk' = [LkIdle EXCEPT !.pc = "called", !.path = path]
  /\ UNCHANGED <<storeVars, watcherVars, registryVars, ev, reqVars, treeOps, treeCall, treeWas,
                 poolCalls, stop, freeze, wr, io, composed, wt>>

\* r.freeze.RLock() taken and the root loaded
LkRLock ==
  /\ lk.pc = "called"
  /\ CanRLock(freeze)
  /\ freeze' = [freeze EXCEPT !.readers = freeze.readers + 1]
  /\ lk' = [lk EXCEPT !.pc = "reading"]
  /\ UNCHANGED <<storeVars, watcherVars, registryVars, ev, reqVars, treeOps, treeCall, treeWas,
                 poolCalls, stop, wr, io, composed, wt>>

\* the loop over the segments and the read of the value under valueMu; the
\* deferred unlocks run and Lookup returns
LkReturn ==
  /\ lk.pc = "reading"
  /\ lk' = [lk EXCEPT !.pc = "idle", !.result = Lookup(tree, lk.path)]
  /\ freeze' = [freeze EXCEPT !.readers = freeze.readers - 1]
  /\ UNCHANGED <<storeVars, watcherVars, registryVars, ev, reqVars, treeOps, treeCall, treeWas,
                 poolCalls, stop, wr, io, composed, wt>>

NextConc ==
  \/ \E path \in TreePaths : \E val \in TreeValues : WrCall("Insert", path, val)
  \/ \E path \in TreePaths : WrCall("Delete", path, NoValue)
  \/ WrLock
  \/ WrWalk
  \/ WrReturn
  \/ \E path \in ConcLookups : LkCall(path)
  \/ LkRLock
  \/ LkReturn

SpecConc == InitTree /\ [][NextConc]_vars

\* ------------------------------------------------------------------------
\* A pool on its own: getNextInvoker called on a pool of any shape
\* ------------------------------------------------------------------------

\* the longest instance list of a pool of SpecPool
MaxPoolLen == 3

\* the calls made on the pool in one behaviour of SpecPool
MaxPoolCalls == 2

InstanceOf(a) == parseServiceInstance(a).instance

\* the instance lists of length n
RECURSIVE InstanceLists(_)
InstanceLists(n) ==
  IF n = 0 THEN {<<>>}
  ELSE LET shorter == InstanceLists(n - 1) IN
       shorter \cup {Append(l, InstanceOf(a)) : l \in {x \in shorter : Len(x) = n - 1},
                                                 a \in Addrs}

\* the counters a pool starts with: the first ones and the last ones before
\* the 64-bit counter wraps
PoolCounters ==
  {Int64(k) : k \in 0..MaxCounter} \cup {[b |-> 1, o |-> -1 - k] : k \in 0..MaxCounter}

\* the heap of SpecPool: an open invoker for each address
PoolHeap ==
  << [address |-> AddrA, desc |-> "U1", closed |-> FALSE],
     [address |-> AddrB, desc |-> "U1", closed |-> FALSE] >>

HeapId(a) == IF a = AddrA THEN 1 ELSE 2

InitPool ==
  /\ metaStore = <<>> /\ instStore = <<>>
  /\ watchM = <<>> /\ watchI = <<>> /\ opLog = <<>>
  /\ wpc = "new" /\ watchingM = FALSE /\ watchingI = FALSE
  /\ metadataMap = <<>> /\ instancesMap = <<>> /\ initialLoading = FALSE
  /\ toEmit = {} /\ eventChan = <<>> /\ emitted = <<>>
  /\ tree = NewRouteTree /\ servicePools = ("user" :> 1) /\ invs = PoolHeap
  /\ \E list \in InstanceLists(MaxPoolLen) :
       \E linked \in SUBSET InstAddrs(list) :
         \E c \in PoolCounters :
           pools = << [serviceName |-> "user",
                       invokers |-> [a \in linked |-> HeapId(a)],
                       instances |-> list, counter |-> c] >>
  /\ routeIndex = <<>> /\ pathIndex = {}
  /\ ev = EvIdle /\ rq = RqIdle /\ resp = NoResponse /\ served = 0
  /\ treeOps = 0 /\ treeCall = <<>> /\ treeWas = [tree |-> NewRouteTree, call |-> <<>>] /\ poolCalls = <<>>
  /\ freeze = Unlocked /\ wr = WrIdle /\ lk = LkIdle
  /\ io = {} /\ composed = <<>> /\ wt = WtInit
  /\ stop = "no"

\* one call of getNextInvoker on the pool
PoolNext ==
  /\ Len(poolCalls) < MaxPoolCalls
  /\ LET r == getNextInvoker(pools[1]) IN
     /\ pools' = [pools EXCEPT ![1].counter = r.counter]
     /\ poolCalls' = Append(poolCalls, [before |-> pools[1].counter, after |-> r.counter,
                                        err |-> r.err, inv |-> r.inv])
  /\ UNCHANGED <<storeVars, watcherVars, tree, servicePools, invs, routeIndex,
                 pathIndex, ev, reqVars, treeOps, treeCall, treeWas, stop,
                 freeze, wr, lk, io, composed, wt>>

NextPool == PoolNext

SpecPool == InitPool /\ [][NextPool]_vars

\* ------------------------------------------------------------------------
\* The invocation on its own: a request that has matched a route and holds
\* an invoker, its payload composed and the backend's answer mapped
\* ------------------------------------------------------------------------

\* the largest gRPC code the backend answers with; the codes above
\* Unauthenticated (16) have no entry in the table of mapGRPCCodeToHTTP
MaxGrpcCode == 17

GrpcCodes == 1..MaxGrpcCode

UpstreamMsgs == {"upstream", ""}

BackendAnswers ==
  {OkAnswer} \cup {StatusAnswer(c, m) : c \in GrpcCodes, m \in UpstreamMsgs}
             \cup {ErrorAnswer("no status")}

\* the HTTP rules of the routes invoked: with and without a path parameter,
\* with each kind of body field
InvokeRules ==
  { [method |-> m, path |-> p, body |-> b, name |-> "Call"] :
      m \in {<<"GET">>, <<"POST">>, <<"DELETE">>},
      p \in {<<"/", "v1", "/", "users">>, <<"/", "v1", "/", "users", "/", ":", "id">>},
      b \in {<<>>, <<"*">>, <<"user">>} }

\* the requests: keys of the query and of the body collide with the path
\* parameter id and with the body field user
InvokeRequests ==
  { [method |-> m, path |-> p, query |-> q, body |-> b] :
      m \in {<<"GET">>, <<"POST">>, <<"DELETE">>},
      p \in {<<"/", "v1", "/", "users">>, <<"/", "v1", "/", "users", "/", "7">>},
      q \in { NoParams,
              (<<"id">> :> << <<"9">> >>),
              (<<"tag">> :> << <<"a">>, <<"b">> >>),
              (<<"user">> :> << <<"q">> >>) },
      b \in { NoBody, JInvalid, JNull,
              JObject((<<"id">> :> JString(<<"5">>))),
              JObject((<<"name">> :> JString(<<"Tom">>))),
              JArray(<<>>) } }

\* the registry holds one route of service user, whose pool has one
\* connected instance; a request has matched the route and obtained the
\* invoker
InitInvoke ==
  /\ metaStore = <<>> /\ instStore = <<>>
  /\ watchM = <<>> /\ watchI = <<>> /\ opLog = <<>>
  /\ wpc = "new" /\ watchingM = FALSE /\ watchingI = FALSE
  /\ metadataMap = <<>> /\ instancesMap = <<>> /\ initialLoading = FALSE
  /\ toEmit = {} /\ eventChan = <<>> /\ emitted = <<>>
  /\ servicePools = ("user" :> 1) /\ invs = PoolHeap
  /\ pools = << [serviceName |-> "user", invokers |-> (AddrA :> HeapId(AddrA)),
                 instances |-> <<InstanceOf(AddrA)>>, counter |-> Int64(1)] >>
  /\ \E rule \in InvokeRules : \E req \in InvokeRequests :
       LET key == RuleKey(rule)
           t == Insert(NewRouteTree, key, Route("user", rule)).tree
           m == Lookup(t, normalizePath(ToUpper(req.method), req.path))
       IN /\ m.found
          /\ tree = t
          /\ routeIndex = ("user" :> {key}) /\ pathIndex = {key}
          /\ rq = [pc |-> "invoke", req |-> req, route |-> m.value,
                   params |-> m.params, pool |-> 1, inv |-> HeapId(AddrA)]
  /\ ev = EvIdle /\ resp = NoResponse /\ served = 1
  /\ treeOps = 0 /\ treeCall = <<>> /\ treeWas = [tree |-> NewRouteTree, call |-> <<>>] /\ poolCalls = <<>>
  /\ freeze = Unlocked /\ wr = WrIdle /\ lk = LkIdle
  /\ io = {} /\ composed = <<>> /\ wt = WtInit
  /\ stop = "no"

NextInvoke == \E answer \in BackendAnswers : ReqFinish(answer)

SpecInvoke == InitInvoke /\ [][NextInvoke]_vars

\* ------------------------------------------------------------------------
\* Start over a large snapshot: the store holds the metadata of n services
\* when the gateway starts, nothing changes it afterwards
\* ------------------------------------------------------------------------

\* the numbers of services in the snapshot
SnapshotSizes == {0, 1, EventChanCap, EventChanCap + 1}

InitStart ==
  /\ \E n \in SnapshotSizes :
       metaStore = [s \in {ManyServices[i] : i \in 1..n} |-> MetaDoc(s, "P1")]
  /\ instStore = <<>>
  /\ InitGateway

\* the loop over the metadata snapshot of loadExistingServicesAndInstances
\* for a snapshot of any size: a turn of the loop writes the entry of its
\* own key only and, during the initial load, sends nothing, so the mirror
\* after the loop is put together key by key
LoadManyMeta(mm, im, store) ==
  LET put(s) == handleMetadataEvent(mm, im, TRUE,
                  [type |-> "put", svc |-> s, val |-> store[s]])
      kept == {s \in DOMAIN store : s \in DOMAIN put(s).meta}
  IN [s \in kept \cup DOMAIN mm |-> IF s \in kept THEN put(s).meta[s] ELSE mm[s]]

\* loadExistingServicesAndInstances: the metadata snapshot
LoadManyMetadata ==
  /\ wpc = "new"
  /\ initialLoading' = TRUE
  /\ metadataMap' = LoadManyMeta(metadataMap, instancesMap, metaStore)
  /\ wpc' = "metaLoaded"
  /\ UNCHANGED <<storeVars, watchingM, watchingI, instancesMap, toEmit, eventChan,
                 emitted, registryVars, ev, reqVars, aloneVars, stop>>

\* the loop that sends the initial events takes the services in the order
\* the iteration over metadataMap yields; how many it sends does not depend
\* on that order, and here it is the order of the keys
EmitInitialNext ==
  /\ toEmit # {}
  /\ LET i == CHOOSE j \in 1..Len(ManyServices) :
                /\ ManyServices[j] \in toEmit
                /\ \A k \in 1..(j - 1) : ManyServices[k] \notin toEmit
     IN EmitInitial(ManyServices[i])

\* no service of the snapshot has an instance, so RegisterService never
\* comes to insert a route
NextStart ==
  \/ LoadManyMetadata
  \/ LoadInstances
  \/ EmitInitialNext
  \/ StartReturns
  \/ OpenMetadataWatch
  \/ OpenInstanceWatch
  \/ ReceiveEvent
  \/ RegEnsurePool
  \/ RegPlan
  \/ RegCreate
  \/ RegMerge
  \/ RegClose

\* every thread that can take a step takes one in the end
SpecStart == InitStart /\ [][NextStart]_vars /\ WF_vars(NextStart)

\* ------------------------------------------------------------------------
\* The watcher stopped while its goroutines run: a watch goroutine receives
\* an event from its stream, handles it and sends what the handler emits on
\* the event channel, and Watcher.Stop may run between the two.  A handler
\* holds w.mu from its start to its return, the send included, so one
\* goroutine handles at a time.  Nothing receives from the channel
\* ------------------------------------------------------------------------

\* a send on the closed event channel has been made: the runtime panics
\* and the process ends
WtPanicked == wt.m.pc = "panic" \/ wt.i.pc = "panic"

\* what a goroutine does once its handler has returned out
WtAfterHandle(out) == IF out = <<>> THEN WtThread ELSE [pc |-> "send", out |-> out]

\* watchMetadata: an event of the stream received and handled up to the send
WtHandleMetadata ==
  /\ ~WtPanicked
  /\ watchingM /\ wt.m.pc = "select"
  /\ wt.i.pc # "send"
  /\ watchM # <<>>
  /\ LET r == handleMetadataEvent(metadataMap, instancesMap, initialLoading, Head(watchM))
     IN /\ metadataMap' = r.meta
        /\ wt' = [wt EXCEPT !.m = WtAfterHandle(r.out)]
  /\ watchM' = Tail(watchM)
  /\ UNCHANGED <<metaStore, instStore, watchI, opLog, wpc, watchingM, watchingI,
                 instancesMap, initialLoading, toEmit, eventChan, emitted,
                 registryVars, ev, reqVars, treeOps, treeCall, treeWas, poolCalls,
                 freeze, wr, lk, io, composed, stop>>

\* watchInstances: an event of the stream received and handled up to the send
WtHandleInstance ==
  /\ ~WtPanicked
  /\ watchingI /\ wt.i.pc = "select"
  /\ wt.m.pc # "send"
  /\ watchI # <<>>
  /\ LET r == handleInstanceEvent(metadataMap, instancesMap, initialLoading,
                                  Head(watchI), instStore, TRUE)
     IN /\ instancesMap' = r.inst
        /\ wt' = [wt EXCEPT !.i = WtAfterHandle(r.out)]
  /\ watchI' = Tail(watchI)
  /\ UNCHANGED <<metaStore, instStore, watchM, opLog, wpc, watchingM, watchingI,
                 metadataMap, initialLoading, toEmit, eventChan, emitted,
                 registryVars, ev, reqVars, treeOps, treeCall, treeWas, poolCalls,
                 freeze, wr, lk, io, composed, stop>>

\* w.eventChan <- e in a handler: the event enqueued; the goroutine waits
\* while the buffer is full; on a closed channel the send panics, also when
\* the channel is closed while the goroutine waits
WtSend(g) ==
  /\ ~WtPanicked
  /\ wt[g].pc = "send"
  /\ IF wt.closed
     THEN /\ wt' = [wt EXCEPT ![g].pc = "panic"]
          /\ UNCHANGED <<eventChan, emitted>>
     ELSE /\ CanSend(wt[g].out) /\ Send(wt[g].out)
          /\ wt' = [wt EXCEPT ![g] = WtThread]
  /\ UNCHANGED <<storeVars, wpc, watchingM, watchingI, metadataMap, instancesMap,
                 initialLoading, toEmit, registryVars, ev, reqVars, treeOps,
                 treeCall, treeWas, poolCalls, freeze, wr, lk, io, composed, stop>>

\* Watcher.Stop: the context cancelled, which ends the two watches, and the
\* event channel closed, whatever the watch goroutines are doing
WtStop ==
  /\ ~WtPanicked
  /\ wpc = "started" /\ ~wt.closed
  /\ wpc' = "stopped"
  /\ watchingM' = FALSE /\ watchingI' = FALSE
  /\ wt' = [wt EXCEPT !.closed = TRUE]
  /\ UNCHANGED <<storeVars, metadataMap, instancesMap, initialLoading, toEmit,
                 eventChan, emitted, registryVars, ev, reqVars, treeOps, treeCall,
                 treeWas, poolCalls, freeze, wr, lk, io, composed, stop>>

\* a watch goroutine finds the context done in its select and returns
WtReturn(g) ==
  /\ ~WtPanicked
  /\ wt.closed /\ wt[g].pc = "select"
  /\ wt' = [wt EXCEPT ![g].pc = "done"]
  /\ UNCHANGED <<storeVars, watcherVars, registryVars, ev, reqVars, treeOps,
                 treeCall, treeWas, poolCalls, freeze, wr, lk, io, composed, stop>>

\* the store changes once Start has returned: the keys of the first service
NextHalt ==
  \/ wpc = "started" /\ StorePutMeta(ManyServices[1], MetaDoc(ManyServices[1], "P1"))
  \/ wpc = "started" /\ StoreDeleteMeta(ManyServices[1])
  \/ wpc = "started" /\ StorePutInstance(ManyServices[1], "i1", AddrA)
  \/ wpc = "started" /\ StoreDeleteInstance(ManyServices[1], "i1")
  \/ LoadManyMetadata
  \/ LoadInstances
  \/ EmitInitialNext
  \/ StartReturns
  \/ OpenMetadataWatch
  \/ OpenInstanceWatch
  \/ WtHandleMetadata
  \/ WtHandleInstance
  \/ \E g \in {"m", "i"} : WtSend(g)
  \/ WtStop
  \/ \E g \in {"m", "i"} : WtReturn(g)

SpecHalt == InitStart /\ [][NextHalt]_vars

\* ------------------------------------------------------------------------
\* The payload composed on its own: BuildRequestJSON called again and again
\* on one request that has matched a route
\* ------------------------------------------------------------------------

\* calls of BuildRequestJSON in one behaviour of SpecCompose
MaxCompose == 2

\* r.Method != "GET" && r.Method != "DELETE": the call reads r.Body to its
\* end and closes it
ReadsBodyAlways(req) == TRUE

ReadsBody(req) == req.method \notin {<<"GET">>, <<"DELETE">>}

\* a body that has been read to its end and closed
ClosedBody == [kind |-> "closed", val |-> <<>>]

\* the orders in which the keys of S can be written
RECURSIVE KeyOrders(_)
KeyOrders(S) ==
  IF S = {} THEN {<<>>}
  ELSE UNION {{<<k>> \o o : o \in KeyOrders(S \ {k})} : k \in S}

\* sonic.Marshal(requestMap): the object written key by key in the order the
\* iteration over the Go map yields, which the language leaves open and
\* which differs from one iteration to the next
Marshal(m) == {[keys |-> o, map |-> m] : o \in KeyOrders(DOMAIN m)}

\* what a call on request req can return.  A read of a body that an earlier
\* call has closed fails (the body of a server request) or yields no bytes
\* (a body whose Close does nothing), according to the kind of body
ComposeResults(req, pathParams, bodyField) ==
  LET again == ReadsBody(req) /\ req.body.kind = "closed"
      r == BuildRequestJSON(IF again THEN [req EXCEPT !.body = NoBody] ELSE req,
                            pathParams, bodyField)
  IN (IF again THEN {[err |-> TRUE, keys |-> <<>>, map |-> <<>>]} ELSE {})
     \cup (IF r.err THEN {[err |-> TRUE, keys |-> <<>>, map |-> <<>>]}
           ELSE {[err |-> FALSE, keys |-> b.keys, map |-> b.map] : b \in Marshal(r.map)})

\* one call of BuildRequestJSON on the request: its result, and the body
\* left closed if the call has read it
Compose ==
  /\ rq.pc = "invoke"
  /\ Len(composed) < MaxCompose
  /\ \E out \in ComposeResults(rq.req, rq.params, rq.route.HttpRule.body) :
       composed' = Append(composed, out)
  /\ rq' = IF ReadsBody(rq.req) /\ rq.req.body.kind # "empty"
           THEN [rq EXCEPT !.req.body = ClosedBody] ELSE rq
  /\ UNCHANGED <<storeVars, watcherVars, registryVars, ev, resp, served, treeOps,
                 treeCall, treeWas, poolCalls, freeze, wr, lk, io, wt, stop>>

NextCompose == Compose

SpecCompose == InitInvoke /\ [][NextCompose]_vars

\* ------------------------------------------------------------------------
\* The registry on its own: the event loop is handed events of any content,
\* one after the other, among them events whose descriptor set cannot be
\* parsed and instances whose target is rejected
\* ------------------------------------------------------------------------

\* the events handed to the event loop in one behaviour of SpecReg
MaxRegEvents == 3

\* a target grpc.NewClient rejects
AddrT == <<"unix", ":", "50051">>

\* the instance lists of the events
RegInstLists ==
  { <<>>, <<InstanceOf(AddrA)>>, <<InstanceOf(AddrB)>>, <<InstanceOf(AddrT)>>,
    <<InstanceOf(AddrA), InstanceOf(AddrT)>>, <<InstanceOf(AddrT), InstanceOf(AddrB)>> }

\* the events: Update and Delete of user with a good and with a broken
\* descriptor set, Update and Delete of ping
RegEvents ==
  {ServiceEvent("Update", [ServiceName |-> "user", Descriptor |-> d], l) :
     d \in {"U1", "X1"}, l \in RegInstLists}
  \cup {ServiceEvent("Update", [ServiceName |-> "ping", Descriptor |-> "P1"], l) :
          l \in {<<>>, <<InstanceOf(AddrA)>>}}
  \cup {ServiceEvent("Delete", [ServiceName |-> n, Descriptor |-> FirstMeta(n).descriptor],
                     <<>>) : n \in Services}

InitReg ==
  /\ metaStore = <<>> /\ instStore = <<>>
  /\ watchM = <<>> /\ watchI = <<>> /\ opLog = <<>>
  /\ wpc = "started" /\ watchingM = FALSE /\ watchingI = FALSE
  /\ metadataMap = <<>> /\ instancesMap = <<>> /\ initialLoading = FALSE
  /\ toEmit = {} /\ eventChan = <<>> /\ emitted = <<>>
  /\ tree = NewRouteTree /\ servicePools = <<>> /\ pools = <<>> /\ invs = <<>>
  /\ routeIndex = <<>> /\ pathIndex = {}
  /\ ev = EvIdle /\ rq = RqIdle /\ resp = NoResponse /\ served = 0
  /\ treeOps = 0 /\ treeCall = <<>> /\ treeWas = [tree |-> NewRouteTree, call |-> <<>>] /\ poolCalls = <<>>
  /\ freeze = Unlocked /\ wr = WrIdle /\ lk = LkIdle
  /\ io = {} /\ composed = <<>> /\ wt = WtInit
  /\ stop = "no"

\* the watcher sends event e once the event loop has applied the one before
FeedEvent(e) ==
  /\ ev.pc = "idle" /\ eventChan = <<>>
  /\ Len(emitted) < MaxRegEvents
  /\ CanSend(<<e>>) /\ Send(<<e>>)
  /\ UNCHANGED <<storeVars, wpc, watchingM, watchingI, metadataMap, instancesMap,
                 initialLoading, toEmit, registryVars, ev, reqVars, aloneVars, stop>>

NextReg ==
  \/ \E e \in RegEvents : FeedEvent(e)
  \/ ReceiveEvent
  \/ RegEnsurePool
  \/ RegPlan
  \/ RegCreate
  \/ RegMerge
  \/ RegClose
  \/ RegInsertRoute
  \/ UnregRoutes
  \/ UnregClear
  \/ UnregClose

SpecReg == InitReg /\ [][NextReg]_vars

\* ------------------------------------------------------------------------
\* The watcher on its own: the keys of one service change in the store, the
\* two watch goroutines handle the changes, nobody takes the events
\* ------------------------------------------------------------------------

\* the instance keys of the service
WatchIds == {"i1", "i2", "i3"}

\* a value that is not "host:port"
AddrBad == <<"10.0.0.1">>

WatchVals == Addrs \cup {AddrBad}

\* the store before the gateway starts: the metadata there or not, any of
\* the instance keys, two of them with the same address
InitWatch ==
  /\ metaStore \in {InitMeta({}), InitMeta({"user"})}
  /\ \E ids \in SUBSET WatchIds :
       instStore = [k \in {<<"user", id>> : id \in ids} |->
                      IF k[2] = "i3" THEN AddrB ELSE AddrA]
  /\ InitGateway

NextWatch ==
  \/ \E v \in MetaVals("user") : StorePutMeta("user", v)
  \/ StoreDeleteMeta("user")
  \/ \E id \in WatchIds : \E a \in WatchVals : StorePutInstance("user", id, a)
  \/ \E id \in WatchIds : StoreDeleteInstance("user", id)
  \/ LoadMetadata
  \/ LoadInstances
  \/ \E s \in Services : EmitInitial(s)
  \/ StartReturns
  \/ OpenMetadataWatch
  \/ OpenInstanceWatch
  \/ WatchMetadataEvent
  \/ WatchInstanceEvent
  \/ WatchInstanceDeleteGetFails

SpecWatch == InitWatch /\ [][NextWatch]_vars

\* ------------------------------------------------------------------------
\* A registration that comes and goes: one service whose only instance key
\* is deleted and put again and again, faster than the event loop applies
\* the events, so that the event channel fills up
\* ------------------------------------------------------------------------

\* the events the watcher sends in one behaviour of SpecBurst: one that the
\* event loop is applying, a full channel, and one more
MaxBurst == 102

InitBurst ==
  /\ metaStore = InitMeta({"user"})
  /\ instStore = InitInst({"user"})
  /\ InitGateway

\* the client of instance id of service s: its key deleted if the store
\* holds it, put with address a if not; the next change comes once the
\* watch goroutine has taken the previous one
Flap(s, id, a) ==
  /\ watchI = <<>>
  /\ Len(emitted) < MaxBurst
  /\ IF <<s, id>> \in DOMAIN instStore
     THEN /\ instStore' = Without(instStore, <<s, id>>)
          /\ watchI' = IF watchingI
                       THEN <<[type |-> "delete", svc |-> s, id |-> id,
                               val |-> instStore[<<s, id>>]]>>
                       ELSE watchI
     ELSE /\ instStore' = (<<s, id>> :> a) @@ instStore
          /\ watchI' = IF watchingI
                       THEN <<[type |-> "put", svc |-> s, id |-> id, val |-> a]>>
                       ELSE watchI
  /\ UNCHANGED <<metaStore, watchM, opLog, watcherVars, registryVars, ev, reqVars,
                 aloneVars, stop>>

NextBurst ==
  \/ Flap("user", "i1", AddrA)
  \/ LoadMetadata
  \/ LoadInstances
  \/ \E s \in Services : EmitInitial(s)
  \/ StartReturns
  \/ OpenInstanceWatch
  \/ WatchInstanceEvent
  \/ ReceiveEvent
  \/ RegEnsurePool
  \/ RegPlan
  \/ RegCreate
  \/ RegMerge
  \/ RegClose
  \/ RegInsertRoute
  \/ UnregRoutes
  \/ UnregClear
  \/ UnregClose

SpecBurst == InitBurst /\ [][NextBurst]_vars

\* ------------------------------------------------------------------------
\* Properties
\* ------------------------------------------------------------------------

\* the watches are open and nothing is left to handle: every store change
\* the watcher saw has been turned into its event and the event processed
Quiescent ==
  /\ wpc = "started" /\ watchingM /\ watchingI
  /\ watchM = <<>> /\ watchI = <<>>
  /\ eventChan = <<>> /\ ev.pc = "idle"

PoolOf(s) == pools[servicePools[s]]

\* the key ServeHTTP looks a request up with
RequestKey(req) == normalizePath(ToUpper(req.method), req.path)

\* the payload ServeHTTP hands to the invoker for a request that matched m
PayloadOf(req, m) == BuildRequestJSON(req, m.params, m.value.HttpRule.body)

\* C1: once the service whose descriptor declares GET /v1/users/{id} is
\* registered with a connected instance and that route is installed, the
\* request GET /v1/users/123 matches the route (it is not answered 404) and
\* the payload for the invoker carries id = "123".
C1_GetUserMatches ==
  ( /\ ev.pc = "idle"
    /\ "user" \in DOMAIN servicePools
    /\ DOMAIN PoolOf("user").invokers # {}
    /\ RuleKey(RuleGetUser) \in RouteKeys("user") )
  => LET m == Lookup(tree, RequestKey(ReqGetUser)) IN
     /\ m.found
     /\ m.value = Route("user", RuleGetUser)
     /\ ~PayloadOf(ReqGetUser, m).err
     /\ <<"id">> \in DOMAIN PayloadOf(ReqGetUser, m).map
     /\ PayloadOf(ReqGetUser, m).map[<<"id">>] = JString(<<"123">>)

\* C2: a metadata Put that adds the rule POST /v1/users to a service whose
\* routes are installed makes that route matchable by Lookup once the event
\* it caused has been processed, with no Delete of the service in between.
C2_NewRuleMatchable ==
  ( /\ Quiescent
    /\ \E i \in 1..Len(opLog) :
         /\ opLog[i].op = "putMeta" /\ opLog[i].svc = "user" /\ opLog[i].val = "U2"
         /\ opLog[i].seen /\ opLog[i].routed
    /\ "user" \in DOMAIN metadataMap /\ metadataMap["user"].Descriptor = "U2"
    /\ \A j \in 1..Len(emitted) : ~(emitted[j].name = "user" /\ emitted[j].type = "Delete") )
  => LET m == Lookup(tree, RuleKey(RuleCreateUser)) IN
     m.found /\ m.value = Route("user", RuleCreateUser)

\* C3: an invoker a request thread has obtained from getNextInvoker is not
\* closed by the registry while the request's invocation is still to come.
C3_InFlightInvokerOpen ==
  rq.pc = "invoke" => ~invs[rq.inv].closed

\* C4: after any sequence of Insert and Delete calls no node has both a
\* parameter child and a wildcard child, and a node with a wildcard child
\* has no other child.
C4_WildcardAlone ==
  \A p \in DOMAIN tree :
    /\ ~(ParamKids(tree, p) # {} /\ WildKids(tree, p) # {})
    /\ WildKids(tree, p) # {} => (StaticKids(tree, p) = {} /\ ParamKids(tree, p) = {})

\* the keys the registry has handed to the tree or holds in an index
KnownKeys ==
  pathIndex \cup UNION {routeIndex[s] : s \in DOMAIN routeIndex}
            \cup {tree[p].fullPath : p \in {q \in DOMAIN tree : tree[q].value # NoValue}}

LookupKeys == {k \in KnownKeys : Lookup(tree, k).found}

\* C5: while no RegisterService or UnRegisterService call is in progress,
\* the keys Lookup finds in the tree, pathIndex and the union of the
\* routeIndex sets are the same set.
C5_IndexesAgree ==
  ev.pc = "idle"
  => /\ LookupKeys = pathIndex
     /\ pathIndex = UNION {routeIndex[s] : s \in DOMAIN routeIndex}

\* the key both descriptors of the model claim: GET /v1/ping
SharedKey == RuleKey(RulePing)

\* C6: when a service's registration reaches a key another service holds,
\* the step changes neither the tree nor the indexes and the registration
\* goes on, the key staying with the service that installed it; when the
\* holder is unregistered the key leaves the tree and both indexes, and is
\* not installed for the other service.
C6_FirstWins ==
  [][ /\ ( /\ ev.pc = "regRoutes" /\ ev' # ev /\ ev'.pc \in {"regRoutes", "idle"}
           /\ RuleKey(Head(ev.rules)) = SharedKey
           /\ SharedKey \in pathIndex /\ SharedKey \notin RouteKeys(ev.e.name) )
         => /\ tree' = tree /\ pathIndex' = pathIndex /\ routeIndex' = routeIndex
            /\ Lookup(tree', SharedKey).found
            /\ Lookup(tree', SharedKey).value.ServiceName # ev.e.name
            /\ SharedKey \in RouteKeys(Lookup(tree', SharedKey).value.ServiceName)
      /\ ( /\ ev.pc = "unregRoutes" /\ ev'.pc \in {"unregClear", "idle"}
           /\ SharedKey \in RouteKeys(ev.e.name) )
         => /\ ~Lookup(tree', SharedKey).found
            /\ SharedKey \notin pathIndex'
            /\ \A s \in DOMAIN routeIndex' : SharedKey \notin routeIndex'[s]
    ]_vars

\* ping was registered after user, which held the shared key and has since
\* been unregistered
C6_SecondNotPromoted ==
  /\ ev.pc = "idle"
  /\ "ping" \in DOMAIN servicePools /\ "user" \notin DOMAIN servicePools
  /\ RouteKeys("ping") = {RuleKey(RuleFilesB)}
  /\ SharedKey \notin pathIndex
  /\ \E j \in 1..Len(emitted) : emitted[j].name = "user" /\ emitted[j].type = "Delete"

\* C7: every pool in the pool map has at most as many invokers as instances,
\* and every invoker key is the Addr of one of its instances (the sections
\* under the pool lock are single steps, so the lock is free in every state).
C7_InvokersWithinInstances ==
  \A s \in DOMAIN servicePools :
    /\ Cardinality(DOMAIN PoolOf(s).invokers) <= Len(PoolOf(s).instances)
    /\ DOMAIN PoolOf(s).invokers \subseteq InstAddrs(PoolOf(s).instances)

\* a reconciliation has just unlinked the invoker of a vanished address
C7_InvokerUnlinked ==
  /\ ev.pc = "regClose" /\ ev.toClose # {}
  /\ ev.e.name \in DOMAIN servicePools
  /\ DOMAIN PoolOf(ev.e.name).invokers # {}

\* x + d without the 64-bit wrap
Plus(x, d) == [b |-> x.b, o |-> x.o + d]

\* x modulo n for the integer x names
MathMod(x, n) == (x.b * Pow2Mod(63, n) + x.o) % n

\* the offsets 0..n-1 at which the scan from counter c meets an instance
\* that has an invoker
Hits(pool, c, n) ==
  {i \in 0..(n - 1) :
     pool.instances[MathMod(Plus(c, 1 + i), n) + 1].Addr \in DOMAIN pool.invokers}

Least(S) == CHOOSE i \in S : \A j \in S : i <= j

\* C8: a call on a pool with n > 0 instances and counter c leaves the
\* counter at c + 1 and returns the invoker of the first instance with an
\* invoker among the indices (c+1) % n, ..., (c+n) % n; the call fails with
\* NoInstances exactly when the list is empty and with NoInvokers exactly
\* when no instance has an invoker.
C8_RoundRobin ==
  \A k \in 1..Len(poolCalls) :
    LET call == poolCalls[k]
        pool == pools[1]
        n == Len(pool.instances)
        hits == Hits(pool, call.before, n)
    IN /\ (call.err = "NoInstances") <=> (n = 0)
       /\ n > 0 =>
            /\ call.after = Plus(call.before, 1)
            /\ (call.err = "NoInvokers") <=> (hits = {})
            /\ hits # {} =>
                 /\ call.err = ""
                 /\ call.inv = pool.invokers[
                      pool.instances[MathMod(Plus(call.before, 1 + Least(hits)), n) + 1].Addr]

\* the events emitted for service s, in order
EventsOf(s) == SelectSeq(emitted, LAMBDA e : e.name = s)

IsPrefix(a, b) == Len(a) <= Len(b) /\ SubSeq(b, 1, Len(a)) = a

UserMeta == [ServiceName |-> "user", Descriptor |-> "U1"]

\* user has metadata and the instance a in the snapshot; then, seen by the
\* instance watch, b is put under a second key and a is deleted
C9_Scenario ==
  /\ "user" \in DOMAIN metaStore
  /\ Len(opLog) = 2
  /\ opLog[1].op = "putInst" /\ opLog[1].svc = "user" /\ opLog[1].id = "i2"
  /\ opLog[1].val = "b" /\ opLog[1].seen
  /\ opLog[2].op = "delInst" /\ opLog[2].svc = "user" /\ opLog[2].id = "i1"
  /\ opLog[2].seen

C9_Expected ==
  << ServiceEvent("Add", UserMeta, <<InstanceOf(AddrA)>>),
     ServiceEvent("Update", UserMeta, <<InstanceOf(AddrA), InstanceOf(AddrB)>>),
     ServiceEvent("Update", UserMeta, <<InstanceOf(AddrB)>>) >>

\* C9: when the instances of a service with metadata go {a}, {a, b}, {b},
\* the events emitted for it are Add, Update, Update in that order and no
\* other; once the registry has processed the third, the pool holds an
\* invoker for b only and the invoker for a is closed.
C9_AddUpdateUpdate ==
  /\ C9_Scenario => IsPrefix(EventsOf("user"), C9_Expected)
  /\ (C9_Scenario /\ Quiescent) =>
       /\ EventsOf("user") = C9_Expected
       /\ "user" \in DOMAIN servicePools
       /\ DOMAIN PoolOf("user").invokers = {AddrB}
       /\ ~invs[PoolOf("user").invokers[AddrB]].closed
       /\ \E i \in 1..Len(invs) : invs[i].address = AddrA /\ invs[i].desc = "U1"
       /\ \A i \in 1..Len(invs) :
            (invs[i].address = AddrA /\ invs[i].desc = "U1") => invs[i].closed

\* the three events have been emitted and processed
C9_ThirdProcessed == C9_Scenario /\ Quiescent

\* the Add events of the services in S, one each, and nothing else
AddsFor(S) ==
  /\ Len(emitted) = Cardinality(S)
  /\ \A j \in 1..Len(emitted) : emitted[j].type = "Add" /\ emitted[j].name \in S
  /\ \A s \in S :
       \E j \in 1..Len(emitted) :
         emitted[j] = ServiceEvent("Add", metadataMap[s],
                        IF s \in DOMAIN instancesMap THEN instancesMap[s] ELSE <<>>)

\* the metadata mirror that holds every key of a metadata snapshot
MetaMirrorOf(store) == [s \in DOMAIN store |-> parseServiceMetadata(store[s]).metadata]

\* an instance mirror holds every key of an instance snapshot
HoldsInstances(im, store) ==
  /\ DOMAIN im = {k[1] : k \in DOMAIN store}
  /\ \A s \in DOMAIN im : InstAddrs(im[s]) = {store[k] : k \in {x \in DOMAIN store : x[1] = s}}

NoWatchEventYet == \A i \in 1..Len(opLog) : ~opLog[i].seen

\* C10: the initial load puts every snapshot key into the mirrors and emits
\* nothing; after it exactly one Add is emitted for each service of the
\* metadata mirror, with its instances (none for a service without
\* metadata), and the watches open only when all of them are enqueued.
C10_InitialLoad ==
  /\ [] ( /\ (wpc \in {"new", "metaLoaded"} \/ initialLoading)
             => (emitted = <<>> /\ eventChan = <<>>)
          /\ wpc = "emitting"
             => (~watchingM /\ ~watchingI /\ AddsFor(DOMAIN metadataMap \ toEmit))
          /\ (watchingM \/ watchingI) => (wpc = "started" /\ toEmit = {})
          /\ (wpc = "started" /\ NoWatchEventYet) => AddsFor(DOMAIN metadataMap) )
  /\ [][ /\ (wpc = "new" /\ wpc' = "metaLoaded")
            => (metadataMap' = MetaMirrorOf(metaStore) /\ emitted' = <<>>)
         /\ (wpc = "metaLoaded" /\ wpc' = "emitting")
            => (HoldsInstances(instancesMap', instStore) /\ emitted' = <<>>)
       ]_vars

\* the watches are open after a load that found instances of user but no
\* metadata for it, and the one Add, for ping, is enqueued
C10_WatchesOpen ==
  /\ wpc = "started" /\ watchingM /\ watchingI /\ NoWatchEventYet
  /\ "user" \in DOMAIN instancesMap /\ "user" \notin DOMAIN metadataMap
  /\ "ping" \in DOMAIN metadataMap
  /\ Len(emitted) = 1

\* C11: the first event emitted for a service is an Add, for a service of
\* the initial snapshot and for one whose metadata the watcher first sees
\* after the initial load.
C11_FirstEventIsAdd ==
  \A s \in Services : EventsOf(s) # <<>> => EventsOf(s)[1].type = "Add"

\* the addresses stored under the discovery prefix of service s
StoredAddrs(s) == {instStore[k] : k \in {x \in DOMAIN instStore : x[1] = s}}

\* the addresses the instance mirror holds for service s
MirrorAddrs(s) == IF s \in DOMAIN instancesMap THEN InstAddrs(instancesMap[s]) ELSE {}

\* C13: once the watches are open and every change of the store has been
\* handled by the watcher, the instance mirror holds for every service
\* exactly the addresses stored for it and the metadata mirror exactly the
\* services that have a metadata key, whenever the changes were made.
C13_MirrorsConverge ==
  (wpc = "started" /\ watchingM /\ watchingI /\ watchM = <<>> /\ watchI = <<>>)
  => /\ \A s \in Services : MirrorAddrs(s) = StoredAddrs(s)
     /\ DOMAIN metadataMap = DOMAIN metaStore

\* the keys the tree holds a value for, as its nodes record them, and the
\* value held for such a key
HeldKeys(t) == {t[p].fullPath : p \in {q \in DOMAIN t : t[q].value # NoValue}}

HeldValue(t, k) ==
  t[CHOOSE p \in DOMAIN t : t[p].value # NoValue /\ t[p].fullPath = k].value

\* C14: after an accepted Insert(k, v) a Lookup of k finds v, and a Lookup of
\* every other key the tree held before the call still finds the value that
\* key was last inserted with.
C14_InsertThenLookup ==
  [][ \A k \in TreePaths : \A v \in TreeValues :
        (treeOps' = treeOps + 1 /\ treeCall' = <<"Insert", k, "ok", v>>)
        => /\ Lookup(tree', k).found
           /\ Lookup(tree', k).value = v
           /\ \A k2 \in HeldKeys(tree) \ {k} :
                /\ Lookup(tree', k2).found
                /\ Lookup(tree', k2).value = HeldValue(tree, k2)
    ]_vars

\* the node of the route /*rest
RestNode == << <<"*", "rest">> >>

\* the paths looked up against /*rest and the remainder each is to capture
RestLookups ==
  { [path |-> <<"/">>, rest |-> <<>>],
    [path |-> <<"/", "a">>, rest |-> <<"a">>],
    [path |-> <<"/", "a", "/", "b", "/", "c">>, rest |-> <<"a", "/", "b", "/", "c">>] }

\* C15: a tree that holds the route /*rest matches /, /a and /a/b/c with
\* rest = "", "a" and "a/b/c".
C15_WildcardRest ==
  (RestNode \in DOMAIN tree /\ tree[RestNode].value # NoValue)
  => \A l \in RestLookups :
       /\ Lookup(tree, l.path).found
       /\ Lookup(tree, l.path).value = tree[RestNode].value
       /\ Lookup(tree, l.path).params = (<<"rest">> :> l.rest)

\* the paths looked up to observe the priority of the children
PriorityLookups ==
  { <<"/", "a">>,
    <<"/", "a", "/", "b">>,
    <<"/", "a", "/", "z">>,
    <<"/", "a", "/", "b", "/", "c">>,
    <<"/", "a", "/", "z", "/", "c">>,
    <<"/", "b">> }

\* the child of node p that segment seg goes to: the static child if there
\* is one, else the parameter child, else the wildcard child, else none
Step(t, p, seg) ==
  IF (p \o <<seg>>) \in DOMAIN t THEN seg
  ELSE IF ParamKids(t, p) # {} THEN Last(paramChild(t, p))
  ELSE IF WildKids(t, p) # {} THEN Last(wildChild(t, p))
  ELSE <<>>

\* q is the node the segments lead to when each node on the way is the one
\* Step names: all segments consumed, or a wildcard child reached
Committed(t, q, segs) ==
  /\ Len(q) <= Len(segs)
  /\ \A i \in 1..Len(q) :
       /\ q[i] = Step(t, SubSeq(q, 1, i - 1), segs[i])
       /\ i < Len(q) => q[i][1] # "*"
  /\ Len(q) = Len(segs) \/ (q # <<>> /\ Last(q)[1] = "*")

\* C16: Lookup follows, at every node, the static child if it exists, else
\* the parameter child, else the wildcard child; it finds the value of the
\* node this one chain ends at, and nothing when the chain stops early or
\* its node has no value, whatever other branches would have matched.
C16_Priority ==
  \A path \in PriorityLookups :
    LET segs == splitPath(path)
        ends == {q \in DOMAIN tree : Committed(tree, q, segs)}
        r == Lookup(tree, path)
    IN /\ Cardinality(ends) <= 1
       /\ r.found <=> (\E q \in ends : tree[q].value # NoValue)
       /\ r.found => \A q \in ends : r.value = tree[q].value

\* the tree holds /a/b and /a/:x/c, and /a/b/c, which only the parameter
\* branch would match, is not found
C16_StaticShadowsParam ==
  /\ << <<"a">>, <<"b">> >> \in DOMAIN tree
  /\ tree[<< <<"a">>, <<"b">> >>].value # NoValue
  /\ << <<"a">>, <<":", "x">>, <<"c">> >> \in DOMAIN tree
  /\ tree[<< <<"a">>, <<":", "x">>, <<"c">> >>].value # NoValue
  /\ ~Lookup(tree, <<"/", "a", "/", "b", "/", "c">>).found

\* the HTTP status the table gives a gRPC code
HttpOf(c) ==
  IF c \in {1, 4} THEN 408
  ELSE IF c \in {3, 9, 11} THEN 400
  ELSE IF c = 5 THEN 404
  ELSE IF c \in {6, 10} THEN 409
  ELSE IF c = 7 THEN 403
  ELSE IF c = 16 THEN 401
  ELSE IF c = 8 THEN 429
  ELSE IF c = 12 THEN 501
  ELSE IF c \in {2, 13, 15} THEN 500
  ELSE IF c = 14 THEN 503
  ELSE 200

\* C17: when the backend answers an invocation with a gRPC status, the
\* response has the HTTP status of the table for its code, the envelope code
\* is the numeric gRPC code and msg is the message of the status.
C17_StatusTable ==
  resp.upstream.kind = "status"
  => /\ resp.status = HttpOf(resp.upstream.code)
     /\ resp.code = resp.upstream.code
     /\ resp.msg = resp.upstream.msg

\* the backend answered Unavailable and the request was answered 503
C17_UnavailableMapped ==
  /\ resp.upstream = StatusAnswer(14, "upstream")
  /\ resp.status = 503 /\ resp.code = 14

\* the envelopes ServeHTTP may write for a request that leaves step pc
EnvelopeOf(pc, r) ==
  CASE pc = "idle" -> r.status = 404 /\ r.code = 404
    [] pc \in {"pool", "next"} -> r.status = 503 /\ r.code = 503
    [] pc = "invoke" ->
         \/ r.upstream = NoAnswer /\ r.inv = 0 /\ r.status = 400 /\ r.code = 400
         \/ r.upstream = NoAnswer /\ r.inv # 0 /\ r.status = 408 /\ r.code = 1
         \/ r.upstream.kind = "ok" /\ r.status = 200 /\ r.code = 0 /\ r.msg = "success"
         \/ r.upstream.kind = "status" /\ r.code = r.upstream.code
         \/ r.upstream.kind = "error" /\ r.status = 500 /\ r.code = -1
    [] OTHER -> FALSE

\* C18: a request taken by ServeHTTP goes through Match, Select, Compose and
\* Invoke, and the step that ends it writes the one envelope of that step:
\* 404 for a route miss, 503 for a missing pool or no invoker, 400 for a
\* payload that cannot be composed, 500 with code -1 for an invocation error
\* without a status, else 200 with code 0 and msg "success"; no step leaves
\* the request without a response.
C18_OneEnvelope ==
  [][ (rq' # rq)
      => /\ rq'.pc \in {"idle", "pool", "next", "invoke"}
         /\ rq'.pc = "idle" => EnvelopeOf(rq.pc, resp')
         /\ rq'.pc # "idle" => resp' = resp
    ]_vars

\* the body of a request is read and used: the method is neither GET nor
\* DELETE, the body is not empty and the rule names a body field
BodyApplies(req, bodyField) ==
  /\ req.method \notin {<<"GET">>, <<"DELETE">>}
  /\ req.body.kind # "empty"
  /\ bodyField # <<>>

\* the keys of the payload the claim describes, and the value of each
PayloadKeys(req, params, bodyField) ==
  DOMAIN params \cup DOMAIN req.query
    \cup (IF ~BodyApplies(req, bodyField) THEN {}
          ELSE IF bodyField # <<"*">> THEN {bodyField}
          ELSE IF req.body.kind = "object" THEN DOMAIN req.body.val
          ELSE {})

PayloadValue(req, params, bodyField, k) ==
  IF BodyApplies(req, bodyField) /\ bodyField # <<"*">> /\ k = bodyField
    THEN req.body
  ELSE IF BodyApplies(req, bodyField) /\ bodyField = <<"*">>
          /\ req.body.kind = "object" /\ k \in DOMAIN req.body.val
    THEN req.body.val[k]
  ELSE IF k \in DOMAIN req.query
    THEN IF Len(req.query[k]) = 1 THEN JString(req.query[k][1]) ELSE JArray(req.query[k])
  ELSE JString(params[k])

\* C19: the payload handed to the invoker holds every path parameter, every
\* query parameter (a string for one value, a list for several) and, when
\* the method is neither GET nor DELETE and the body is not empty, the body:
\* its keys at top level for body field "*", the whole body under the named
\* field otherwise, nothing for body field ""; the body wins over the query,
\* the query over the path.  Composition fails only for a body that is used
\* and is not JSON of the kind the field takes.
C19_Payload ==
  [][ (rq.pc = "invoke" /\ rq'.pc = "idle")
      => LET req == rq.req
             bodyField == rq.route.HttpRule.body
         IN IF resp'.inv # 0
            THEN /\ DOMAIN resp'.payload = PayloadKeys(req, rq.params, bodyField)
                 /\ \A k \in DOMAIN resp'.payload :
                      resp'.payload[k] = PayloadValue(req, rq.params, bodyField, k)
            ELSE /\ BodyApplies(req, bodyField)
                 /\ \/ req.body.kind = "invalid"
                    \/ bodyField = <<"*">> /\ req.body.kind \notin {"object", "null"}
    ]_vars

\* a POST on /v1/users/:id with body field "*" was invoked with a payload in
\* which id is the value of the body, not the path parameter
C19_BodyOverrides ==
  /\ \E p \in DOMAIN tree :
       /\ tree[p].value # NoValue
       /\ tree[p].value.HttpRule.method = <<"POST">>
       /\ tree[p].value.HttpRule.body = <<"*">>
       /\ Last(p) = <<":", "id">>
  /\ resp.inv # 0
  /\ <<"id">> \in DOMAIN resp.payload
  /\ resp.payload[<<"id">>] = JString(<<"5">>)

C20_ClosedAfterStop ==
  stop = "returned"
  => \A p \in 1..Len(pools) : \A a \in DOMAIN pools[p].invokers :
       invs[pools[p].invokers[a]].closed

\* the tree before the call the writer is in, and the tree after it
TreeBefore == IF wr.pc \in {"idle", "called"} THEN tree ELSE wr.before

TreeAfter ==
  IF wr.pc \in {"idle", "called"} THEN tree
  ELSE IF wr.op = "Insert" THEN Insert(wr.before, wr.path, wr.val).tree
  ELSE Delete(wr.before, wr.path).tree

\* C21: a Lookup that runs while Insert and Delete are called returns what
\* it would return on the tree before the mutation in progress or on the
\* tree after it; and the tree a mutation leaves is the tree of the call as
\* a whole.
C21_LookupSeesWholeCalls ==
  [][ /\ (lk.pc = "reading" /\ lk'.pc = "idle")
         => \/ lk'.result = Lookup(TreeBefore, lk.path)
            \/ lk'.result = Lookup(TreeAfter, lk.path)
      /\ (wr.pc = "walked" /\ wr'.pc = "idle") => tree' = TreeAfter
    ]_vars

\* a Lookup is waiting for the lock while a Delete has cleared a value and
\* not yet unlinked the node: the tree as it stands would answer the Lookup
\* differently from the tree before and from the tree after the Delete
C21_LookupWaitsForDelete ==
  /\ lk.pc = "called"
  /\ wr.pc = "walked" /\ wr.op = "Delete" /\ wr.ok
  /\ Lookup(tree, lk.path) # Lookup(TreeBefore, lk.path)
  /\ Lookup(tree, lk.path) # Lookup(TreeAfter, lk.path)

\* the events sent in the step
Sent == SubSeq(emitted', Len(emitted) + 1, Len(emitted'))

\* the mirror's list of service s, empty when the mirror has none
MirrorList(im, s) == IF s \in DOMAIN im THEN im[s] ELSE <<>>

\* the entries of list whose address is not a
OtherAddrs(list, a) == SelectSeq(list, LAMBDA x : x.Addr # a)

\* the watch goroutine handles an instance Put whose value is "host:port"
InstancePutStep ==
  /\ watchI # <<>> /\ watchI' = Tail(watchI)
  /\ Head(watchI).type = "put"
  /\ ~parseServiceInstance(Head(watchI).val).nil

\* C22: once the initial load is over, an instance Put for service s leaves
\* the instance in instances[s], the entries of the other addresses as they
\* were, one entry at most for each address, and sends one Update with the
\* new list if metadata[s] is known, nothing if not
C22_InstancePut ==
  [][ InstancePutStep
      => LET e == Head(watchI)
             inst == parseServiceInstance(e.val).instance
             old == MirrorList(instancesMap, e.svc)
             new == MirrorList(instancesMap', e.svc)
         IN /\ ~initialLoading
            /\ e.svc \in DOMAIN instancesMap'
            /\ \E i \in 1..Len(new) : new[i] = inst
            /\ OtherAddrs(new, inst.Addr) = OtherAddrs(old, inst.Addr)
            /\ \A i, j \in 1..Len(new) : new[i].Addr = new[j].Addr => i = j
            /\ Sent = IF e.svc \in DOMAIN metadataMap
                      THEN <<ServiceEvent("Update", metadataMap[e.svc], new)>>
                      ELSE <<>>
    ]_vars

\* the watch goroutine handles a metadata Delete
MetadataDeleteStep ==
  /\ watchM # <<>> /\ watchM' = Tail(watchM)
  /\ Head(watchM).type = "delete"

\* C23: once the initial load is over, a metadata Delete for a service the
\* mirror knows removes metadata[s] and sends one Delete, with the metadata
\* removed, if instances[s] is empty or absent, and nothing if instances
\* remain; for a service the mirror does not know it changes nothing and
\* sends nothing.  The instance mirror is left as it is.
C23_MetadataDelete ==
  [][ MetadataDeleteStep
      => LET s == Head(watchM).svc
             insts == MirrorList(instancesMap, s)
         IN /\ ~initialLoading
            /\ instancesMap' = instancesMap
            /\ IF s \in DOMAIN metadataMap
               THEN /\ DOMAIN metadataMap' = DOMAIN metadataMap \ {s}
                    /\ \A x \in DOMAIN metadataMap' : metadataMap'[x] = metadataMap[x]
                    /\ Sent = IF Len(insts) = 0
                              THEN <<ServiceEvent("Delete", metadataMap[s], insts)>>
                              ELSE <<>>
               ELSE /\ metadataMap' = metadataMap
                    /\ Sent = <<>>
    ]_vars

\* the metadata of user, known from the initial load, has been deleted while
\* the mirror held an instance of user: the Delete was handled and no Delete
\* event has been sent
C23_DeletedWithInstances ==
  /\ watchingM /\ watchM = <<>>
  /\ \E i \in 1..Len(opLog) : opLog[i].op = "delMeta" /\ opLog[i].seen
  /\ \A i \in 1..Len(opLog) : opLog[i].op = "delMeta"
  /\ "user" \notin DOMAIN metadataMap
  /\ MirrorList(instancesMap, "user") # <<>>
  /\ \E i \in 1..Len(emitted) : emitted[i].type = "Add"
  /\ \A i \in 1..Len(emitted) : emitted[i].type # "Delete"

\* the watch goroutine handles an instance Delete
InstanceDeleteStep ==
  /\ watchI # <<>> /\ watchI' = Tail(watchI)
  /\ Head(watchI).type = "delete"

\* the Get of the step failed
GetFailed == opLog' # opLog

\* the keys of service s in the store whose value is "host:port"
ValidKeys(s) ==
  {k \in DOMAIN instStore : k[1] = s /\ ~parseServiceInstance(instStore[k]).nil}

\* list is the full set of instances of s in the store, one entry for each
\* key
IsFullSet(list, s) ==
  /\ Len(list) = Cardinality(ValidKeys(s))
  /\ {list[i] : i \in 1..Len(list)}
       = {parseServiceInstance(instStore[k]).instance : k \in ValidKeys(s)}

\* what an instance Delete for s does once the store has been read: the
\* mirror's list replaced by the full set, the other services' lists left,
\* Delete sent for an empty set and Update for any other if metadata[s] is
\* known, nothing if not
Reread(s) ==
  LET new == MirrorList(instancesMap', s) IN
  /\ IsFullSet(new, s)
  /\ \A x \in DOMAIN instancesMap \ {s} :
       x \in DOMAIN instancesMap' /\ instancesMap'[x] = instancesMap[x]
  /\ Sent = IF s \notin DOMAIN metadataMap THEN <<>>
            ELSE IF Len(new) = 0
              THEN <<ServiceEvent("Delete", metadataMap[s], new)>>
            ELSE <<ServiceEvent("Update", metadataMap[s], new)>>

\* C24 as stated: once the initial load is over, an instance Delete for
\* service s replaces instances[s] by the full set read from the store and
\* sends Delete (empty set) or Update if metadata[s] is known, nothing if
\* not; a failed read leaves the mirror and sends nothing
C24_InstanceDelete ==
  [][ InstanceDeleteStep
      => IF GetFailed THEN instancesMap' = instancesMap /\ Sent = <<>>
         ELSE Reread(Head(watchI).svc)
    ]_vars

\* C24 amended: the same for a service that has a list in the instance
\* mirror; for a service that has none the Delete changes nothing and sends
\* nothing
C24_InstanceDeleteOfMirrored ==
  [][ InstanceDeleteStep
      => /\ ~initialLoading
         /\ IF Head(watchI).svc \notin DOMAIN instancesMap \/ GetFailed
            THEN instancesMap' = instancesMap /\ Sent = <<>>
            ELSE Reread(Head(watchI).svc)
    ]_vars

\* the last instance key of user has been deleted and the Delete handled:
\* the mirror's list of user is empty and the last event sent is the Delete
\* of user
C24_LastInstanceGone ==
  /\ watchingI /\ watchI = <<>>
  /\ \E i \in 1..Len(opLog) : opLog[i].op = "delInst" /\ opLog[i].seen
  /\ "user" \in DOMAIN instancesMap /\ instancesMap["user"] = <<>>
  /\ ValidKeys("user") = {}
  /\ emitted # <<>> /\ Last(emitted).type = "Delete" /\ Last(emitted).name = "user"

\* RegisterService returns in the step
RegisterReturns == ev.pc \in {"regClose", "regRoutes"} /\ ev'.pc = "idle"

\* the pool of the call holds an open invoker for an instance of the event
HasLiveInvoker ==
  \E i \in 1..Len(ev.e.insts) :
    LET a == ev.e.insts[i].Addr IN
    /\ a \in DOMAIN pools'[ev.pool].invokers
    /\ ~invs'[pools'[ev.pool].invokers[a]].closed

\* the route keys of the HTTP rules of descriptor set d
DescKeys(d) == {RuleKey(DescRules(d)[i]) : i \in 1..Len(DescRules(d))}

C26_NoNetworkUnderLock == io = {}

DeleteAfterInsert(k) ==
  /\ treeOps' = treeOps + 1
  /\ \E v \in TreeValues : treeCall = <<"Insert", k, "ok", v>>
  /\ \E ok \in {"true", "false"} : treeCall' = <<"Delete", k, ok>>

\* C28: Delete(k) directly after an accepted Insert(k, v) leaves the tree
\* equal to the tree before the Insert: the same nodes, children and values
C28_DeleteUndoesInsert ==
  [][ \A k \in TreePaths : DeleteAfterInsert(k) => tree' = treeWas.tree ]_vars

\* the node at which the key k, held by t, ends
NodeOf(t, k) == CHOOSE p \in DOMAIN t : t[p].value # NoValue /\ t[p].fullPath = k

\* the nodes of t on the way to node, node included, under which t has
\* nothing but valueless nodes on that way
BareOnWay(t, node) ==
  {n \in DOMAIN t \ {<<>>} :
     /\ IsPrefix(n, node)
     /\ \A q \in DOMAIN t : IsPrefix(n, q) => IsPrefix(q, node) /\ t[q].value = NoValue}

\* C28 as the code has it: when the node k ends at held no value before the
\* Insert, Delete(k) directly after the accepted Insert(k, v) leaves the
\* tree as it was before the Insert, less the nodes on the way to k that
\* held no value and had nothing else beneath them
C28_DeleteUndoesFreshInsert ==
  [][ \A k \in TreePaths :
        LET was == treeWas.tree
            node == NodeOf(tree, k)
        IN (/\ DeleteAfterInsert(k)
            /\ node \in DOMAIN was => was[node].value = NoValue)
           => tree' = [n \in DOMAIN was \ BareOnWay(was, node) |-> was[n]]
    ]_vars

\* Delete(k) has undone an Insert(k, v) that created nodes under a node that
\* holds a value
C28_InsertUndone ==
  /\ Len(treeCall) = 3 /\ treeCall[1] = "Delete" /\ treeCall[3] = "true"
  /\ Len(treeWas.call) = 4 /\ treeWas.call[1] = "Insert"
  /\ treeWas.call[2] = treeCall[2] /\ treeWas.call[3] = "ok"
  /\ Cardinality(DOMAIN treeWas.tree) > Cardinality(DOMAIN tree)
  /\ \E n \in DOMAIN tree : tree[n].value # NoValue

\* the invokers pool p holds
HeldInvokers(p) == {p.invokers[a] : a \in DOMAIN p.invokers}

\* C29: UnRegisterService(s) leaves no key of routeIndex[s] matchable in the
\* tree or present in pathIndex, no entry for s in routeIndex and in the
\* pool map, every invoker the pool held closed and its instance list
\* empty; the routes and pools of the other services are as they were.
\* Stated on the three sections of the call, which the event loop runs one
\* after the other: the first does the routes and the maps, the second
\* empties the pool, the third closes the invokers, and each leaves alone
\* what the others have done.
C29_UnregisterEffect ==
  [][ LET s == ev.e.name IN
      /\ (ev.pc = "unregRoutes" /\ ev'.pc # ev.pc)
         => /\ \A k \in RouteKeys(s) : ~Lookup(tree', k).found /\ k \notin pathIndex'
            /\ s \notin DOMAIN routeIndex'
            /\ s \notin DOMAIN servicePools'
            /\ \A o \in DOMAIN routeIndex \ {s} :
                 /\ o \in DOMAIN routeIndex' /\ routeIndex'[o] = routeIndex[o]
                 /\ routeIndex[o] \subseteq pathIndex'
                 /\ \A k \in routeIndex[o] : Lookup(tree', k) = Lookup(tree, k)
            /\ \A o \in DOMAIN servicePools \ {s} :
                 o \in DOMAIN servicePools' /\ servicePools'[o] = servicePools[o]
            /\ pools' = pools /\ invs' = invs
      /\ (ev.pc = "unregClear" /\ ev'.pc # ev.pc)
         => /\ pools'[ev.pool].invokers = <<>>
            /\ pools'[ev.pool].instances = <<>>
            /\ ev'.toClose = HeldInvokers(pools[ev.pool])
            /\ \A i \in DOMAIN pools \ {ev.pool} : pools'[i] = pools[i]
            /\ UNCHANGED <<tree, routeIndex, pathIndex, servicePools, invs>>
      /\ (ev.pc = "unregClose" /\ ev'.pc # ev.pc)
         => /\ \A i \in ev.toClose : invs'[i].closed
            /\ \A i \in DOMAIN invs \ ev.toClose : invs'[i] = invs[i]
            /\ UNCHANGED <<tree, routeIndex, pathIndex, servicePools, pools>>
    ]_vars

\* C30: a NewGRPCInvoker that fails for one address of an event does not
\* keep the other addresses from getting their invokers, the address stays
\* in the instance list, and every call tries again the listed addresses
\* that have no invoker. When RegisterService plans its work, every listed
\* address without an invoker is among those to create; when it returns,
\* the pool's instance list is the list of the event, and every listed
\* address has an open invoker of its own in the pool unless NewGRPCInvoker
\* fails for that address with the descriptor set of this event
C30_PartialAvailability ==
  [][ /\ (ev.pc = "regPlan" /\ ev'.pc = "regCreate")
         => \A a \in InstAddrs(ev.e.insts) \ DOMAIN pools[ev.pool].invokers :
              a \in InstAddrs(ev'.toCreate)
      /\ RegisterReturns
         => LET pool == pools'[ev.pool] IN
            /\ pool.instances = ev.e.insts
            /\ \A a \in InstAddrs(ev.e.insts) :
                 IF a \in DOMAIN pool.invokers
                 THEN /\ invs'[pool.invokers[a]].address = a
                      /\ ~invs'[pool.invokers[a]].closed
                 ELSE NewGRPCInvoker(a, ev.e.desc).err
    ]_vars

\* the event loop has applied two events of user: the first listed a target
\* that is rejected and a good one, with a descriptor set that cannot be
\* parsed, and no invoker was made; the second lists the same two with a
\* good descriptor set, and the pool holds an invoker for the good address
\* and none for the rejected one, which is still in the instance list
C30_RetriedAndPartlyServed ==
  /\ Len(emitted) = 2 /\ eventChan = <<>> /\ ev.pc = "idle"
  /\ emitted[1].desc = "X1" /\ emitted[2].desc = "U1"
  /\ emitted[1].insts = <<InstanceOf(AddrT), InstanceOf(AddrB)>>
  /\ emitted[2].insts = emitted[1].insts
  /\ "user" \in DOMAIN servicePools
  /\ PoolOf("user").instances = emitted[2].insts
  /\ DOMAIN PoolOf("user").invokers = {AddrB}
  /\ ~invs[PoolOf("user").invokers[AddrB]].closed

C32_StartReturns ==
  <>(/\ wpc = "started" /\ watchingM /\ watchingI
     /\ {emitted[i].name : i \in 1..Len(emitted)} = DOMAIN metaStore)

\* the metadata key and every instance key of s have been deleted from the
\* store, each deletion was delivered by its watch, and no Get of the
\* instance handler failed
DeletedAndSeen(s) ==
  /\ s \notin DOMAIN metaStore
  /\ \A k \in DOMAIN instStore : k[1] # s
  /\ \E i \in 1..Len(opLog) : opLog[i].op = "delMeta" /\ opLog[i].svc = s
  /\ \A i \in 1..Len(opLog) :
       /\ opLog[i].op \in {"delMeta", "delInst"}
       /\ opLog[i].svc = s
       /\ opLog[i].seen

\* C33: once the metadata key and all instance keys of a service have been
\* deleted, in either order, and every resulting watch event has been
\* handled, a Delete event has been emitted for the service and the
\* registry holds no pool and no routes for it
C33_DeletedServiceIsGone ==
  \A s \in Services :
    (Quiescent /\ DeletedAndSeen(s))
    => /\ \E i \in 1..Len(emitted) :
            emitted[i].type = "Delete" /\ emitted[i].name = s
       /\ s \notin DOMAIN servicePools
       /\ RouteKeys(s) = {}

\* the accesses to r.servicePools the threads are about to make: the request
\* thread reads the map in ServeHTTP without taking r.mu; the event loop
\* reads and writes it in RegisterService and UnRegisterService under r.mu
PoolMapAccesses ==
  (IF rq.pc = "pool"
   THEN {[by |-> "ServeHTTP", write |-> FALSE, mu |-> FALSE]} ELSE {})
  \cup (IF ev.pc = "regPool"
        THEN {[by |-> "RegisterService", write |-> ev.e.name \notin DOMAIN servicePools,
               mu |-> TRUE]}
        ELSE {})
  \cup (IF ev.pc = "unregRoutes"
        THEN {[by |-> "UnRegisterService", write |-> TRUE, mu |-> TRUE]} ELSE {})

\* C34: every access to the registry's pool map is made under the registry
\* lock, so a request thread never reads the map while the event loop
\* writes it
C34_PoolMapUnderLock ==
  /\ \A a \in PoolMapAccesses : a.mu
  /\ \A a, b \in PoolMapAccesses : (a.by # b.by /\ a.write) => (a.mu /\ b.mu)

\* C35: no watch goroutine sends on the event channel after Stop has closed
\* it, whether it was handling an event or waiting on a full buffer when
\* Stop ran
C35_NoSendOnClosedChannel == ~WtPanicked

\* the last call on the tree was an Insert that returned an error
InsertRejected ==
  /\ treeCall # <<>>
  /\ treeCall[1] = "Insert" /\ treeCall[3] # "ok"

\* C36: an Insert that returns an error leaves the tree as it was: every
\* Lookup, and the outcome of an Insert, a Delete or an Update made next,
\* is what it would have been had the rejected Insert not been called
C36_RejectedInsertLeavesNoTrace ==
  InsertRejected
  => \A p \in TreePaths \cup ProbePaths :
       /\ Lookup(tree, p) = Lookup(treeWas.tree, p)
       /\ Delete(tree, p).ok = Delete(treeWas.tree, p).ok
       /\ \A v \in TreeValues :
            /\ Insert(tree, p, v).err = Insert(treeWas.tree, p, v).err
            /\ Update(tree, p, v, TRUE).ok = Update(treeWas.tree, p, v, TRUE).ok

\* the keys stored in t with their values
StoredValues(t) ==
  {[key |-> t[n].fullPath, value |-> t[n].value] : n \in {m \in DOMAIN t : t[m].value # NoValue}}

\* the last call is the first or the second made on the tree, and no call
\* before it was an Insert of k
NeverInserted(k) ==
  \/ treeOps = 1
  \/ /\ treeOps = 2
     /\ ~(treeWas.call[1] = "Insert" /\ treeWas.call[2] = k)

\* C37: Delete(k) for a key that was never inserted returns false and
\* leaves every stored value as it was, and Update(k, f) for such a key
\* returns false without calling f, also when k matches a stored template
\* through a parameter or a wildcard
C37_UnknownKeyUntouched ==
  (/\ treeOps \in {1, 2}
   /\ treeCall[1] \in {"Delete", "Update"}
   /\ NeverInserted(treeCall[2]))
  => /\ treeCall[3] = "false"
     /\ StoredValues(tree) = StoredValues(treeWas.tree)
     /\ treeCall[1] = "Update" => treeCall[4] = "notCalled"

\* the index getNextInvoker computes in turn i of its loop in the call c
IndexAt(c, i) == RemInt64(AddInt64(c.after, i), Len(pools[1].instances))

\* turn i of the loop is reached in the call c: every turn before it
\* computed an index of the list and found no invoker there
TurnReached(c, i) ==
  \A j \in 0..(i - 1) :
    /\ IndexAt(c, j) \in 0..(Len(pools[1].instances) - 1)
    /\ pools[1].instances[IndexAt(c, j) + 1].Addr \notin DOMAIN pools[1].invokers

\* C38: whatever the round-robin counter holds, also once the increment
\* has wrapped past the largest int64, every index getNextInvoker computes
\* lies in 0..len(instances)-1
C38_IndexInRange ==
  \A k \in 1..Len(poolCalls) :
    \A i \in 0..(Len(pools[1].instances) - 1) :
      TurnReached(poolCalls[k], i)
      => IndexAt(poolCalls[k], i) \in 0..(Len(pools[1].instances) - 1)

====
